---- MODULE Spec2Model ----
(***************************************************************************)
(* gitvault: a vault of encrypted per-project/per-environment dotenv       *)
(* secrets and binary blobs with a plaintext Index.                        *)
(*                                                                         *)
(* Strings are sequences of one-character strings, so that formatting and  *)
(* parsing of dotenv text are computed character by character as the Go    *)
(* code does.                                                              *)
(***************************************************************************)
EXTENDS Integers, Sequences, FiniteSets, TLC

(***************************************************************************)
(* Bytes and strings                                                       *)
(***************************************************************************)

\* the byte value of a character (sort.Strings compares bytes)
Byte(c) ==
    CASE c = "\t" -> 9  [] c = "\n" -> 10 [] c = "\f" -> 12 [] c = "\r" -> 13
      [] c = " " -> 32  [] c = "\"" -> 34 [] c = "#" -> 35  [] c = "'" -> 39
      [] c = "-" -> 45  [] c = "." -> 46  [] c = "/" -> 47  [] c = "1" -> 49
      [] c = "=" -> 61  [] c = "A" -> 65  [] c = "B" -> 66  [] c = "C" -> 67
      [] c = "\\" -> 92 [] c = "_" -> 95  [] c = "d" -> 100 [] c = "e" -> 101
      [] c = "f" -> 102 [] c = "n" -> 110 [] c = "o" -> 111 [] c = "p" -> 112
      [] c = "q" -> 113 [] c = "r" -> 114 [] c = "t" -> 116 [] c = "v" -> 118
      [] c = "x" -> 120 [] c = "y" -> 121 [] c = "z" -> 122

\* unicode.IsSpace restricted to the characters of the model
IsSpace(c) == c \in {" ", "\t", "\n", "\r", "\f"}

RECURSIVE TrimLeft(_)
TrimLeft(s) ==
    IF s /= <<>> /\ IsSpace(Head(s)) THEN TrimLeft(Tail(s)) ELSE s

RECURSIVE TrimRight(_)
TrimRight(s) ==
    IF s /= <<>> /\ IsSpace(s[Len(s)])
    THEN TrimRight(SubSeq(s, 1, Len(s) - 1))
    ELSE s

\* strings.TrimSpace
TrimSpace(s) == TrimLeft(TrimRight(s))

\* strings.HasPrefix
HasPrefix(s, p) == Len(s) >= Len(p) /\ SubSeq(s, 1, Len(p)) = p

\* strings.TrimPrefix
TrimPrefix(s, p) == IF HasPrefix(s, p) THEN SubSeq(s, Len(p) + 1, Len(s)) ELSE s

\* strings.Index for a one-character needle; 0 when absent (Go: -1), else
\* the 1-based position of the first occurrence
IndexOf(s, c) ==
    IF \E i \in 1..Len(s) : s[i] = c
    THEN CHOOSE i \in 1..Len(s) : s[i] = c /\ \A j \in 1..(i - 1) : s[j] /= c
    ELSE 0

\* strings.ContainsAny
ContainsAny(s, chars) == \E i \in 1..Len(s) : s[i] \in chars

\* strings.ReplaceAll for a one-character old string
RECURSIVE ReplaceAll(_, _, _)
ReplaceAll(s, old, new) ==
    IF s = <<>> THEN <<>>
    ELSE (IF Head(s) = old THEN new ELSE <<Head(s)>>) \o ReplaceAll(Tail(s), old, new)

\* byte-wise lexicographic order of Go strings: a < b
RECURSIVE StrLess(_, _)
StrLess(a, b) ==
    IF b = <<>> THEN FALSE
    ELSE IF a = <<>> THEN TRUE
    ELSE IF Byte(Head(a)) /= Byte(Head(b)) THEN Byte(Head(a)) < Byte(Head(b))
    ELSE StrLess(Tail(a), Tail(b))

\* sort.Strings applied to the elements of a finite set of strings
RECURSIVE SortStrings(_)
SortStrings(S) ==
    IF S = {} THEN <<>>
    ELSE LET m == CHOOSE a \in S : \A b \in S \ {a} : StrLess(a, b)
         IN  <<m>> \o SortStrings(S \ {m})

\* the elements of a sequence
Range(s) == {s[i] : i \in 1..Len(s)}

\* concatenation of a sequence of strings
RECURSIVE Concat(_)
Concat(ss) == IF ss = <<>> THEN <<>> ELSE Head(ss) \o Concat(Tail(ss))

(***************************************************************************)
(* DotenvEngine, value mode                                                *)
(***************************************************************************)

isValidEnvKey(key) ==
    /\ key /= <<>>
    /\ \A i \in 1..Len(key) :
          \/ Byte(key[i]) >= 65 /\ Byte(key[i]) <= 90
          \/ Byte(key[i]) >= 97 /\ Byte(key[i]) <= 122
          \/ key[i] = "_"
          \/ i > 1 /\ Byte(key[i]) >= 48 /\ Byte(key[i]) <= 57

IsValidEnvKey(key) == isValidEnvKey(key)

\* formatDotenvValue: bare unless the value has a character that needs quotes
formatDotenvValue(value) ==
    IF value = <<>> THEN <<>>
    ELSE IF ~ContainsAny(value, {" ", "\t", "\n", "\r", "#", "\"", "'", "\\"})
    THEN value
    ELSE LET e1 == ReplaceAll(value, "\\", <<"\\", "\\">>)
             e2 == ReplaceAll(e1, "\"", <<"\\", "\"">>)
             e3 == ReplaceAll(e2, "\n", <<"\\", "n">>)
             e4 == ReplaceAll(e3, "\r", <<"\\", "r">>)
             e5 == ReplaceAll(e4, "\t", <<"\\", "t">>)
         IN  <<"\"">> \o e5 \o <<"\"">>

\* the escape loop of parseQuoted for a double-quoted inner text
RECURSIVE Unescape(_)
Unescape(inner) ==
    IF inner = <<>> THEN <<>>
    ELSE IF Head(inner) /= "\\" \/ Len(inner) = 1
    THEN <<Head(inner)>> \o Unescape(Tail(inner))
    ELSE LET next == inner[2]
             out  == CASE next = "n" -> "\n"
                       [] next = "r" -> "\r"
                       [] next = "t" -> "\t"
                       [] OTHER -> next
         IN  <<out>> \o Unescape(SubSeq(inner, 3, Len(inner)))

\* parseQuoted: [ok, value]
parseQuoted(value, quote) ==
    IF Len(value) < 2 \/ value[Len(value)] /= quote
    THEN [ok |-> FALSE, value |-> <<>>]
    ELSE LET inner == SubSeq(value, 2, Len(value) - 1)
         IN  IF quote = "'"
             THEN [ok |-> TRUE, value |-> inner]
             ELSE [ok |-> TRUE, value |-> Unescape(inner)]

\* stripInlineComment: cut at the first '#' that starts the value or follows
\* a blank
stripInlineComment(value) ==
    LET cut == {i \in 1..Len(value) :
                  /\ value[i] = "#"
                  /\ (i = 1 \/ value[i - 1] \in {" ", "\t"})}
    IN  IF cut = {} THEN value
        ELSE LET i == CHOOSE k \in cut : \A j \in cut : k <= j
             IN  IF i = 1 THEN <<>> ELSE TrimSpace(SubSeq(value, 1, i - 1))

\* parseDotenvValue: [ok, value]
parseDotenvValue(value) ==
    IF value = <<>> THEN [ok |-> TRUE, value |-> <<>>]
    ELSE IF HasPrefix(value, <<"\"">>) THEN parseQuoted(value, "\"")
    ELSE IF HasPrefix(value, <<"'">>) THEN parseQuoted(value, "'")
    ELSE [ok |-> TRUE, value |-> TrimSpace(stripInlineComment(value))]

\* bufio.ScanLines over the whole input: the lines without their terminator,
\* a trailing carriage return dropped, no token for an empty rest at EOF
RECURSIVE ScanLines(_)
ScanLines(data) ==
    LET dropCR(l) == IF l /= <<>> /\ l[Len(l)] = "\r"
                     THEN SubSeq(l, 1, Len(l) - 1) ELSE l
        nl == IndexOf(data, "\n")
    IN  IF data = <<>> THEN <<>>
        ELSE IF nl = 0 THEN <<dropCR(data)>>
        ELSE <<dropCR(SubSeq(data, 1, nl - 1))>>
                 \o ScanLines(SubSeq(data, nl + 1, Len(data)))

EmptyDotenv == [Values |-> <<>>, Order |-> <<>>, Issues |-> <<>>]

\* m with key k bound to v (a Go map assignment)
MapSet(m, k, v) == [x \in DOMAIN m \cup {k} |-> IF x = k THEN v ELSE m[x]]

\* m without key k (Go's delete)
MapDelete(m, k) == [x \in DOMAIN m \ {k} |-> m[x]]

\* the body of the scan loop of ParseDotenv for one line
ParseDotenvLine(acc, text, lineNum) ==
    LET line0 == TrimSpace(text)
        isExp == HasPrefix(line0, <<"e", "x", "p", "o", "r", "t", " ">>)
        line  == IF isExp
                 THEN TrimSpace(TrimPrefix(line0, <<"e", "x", "p", "o", "r", "t", " ">>))
                 ELSE line0
        warn  == IF isExp
                 THEN Append(acc.Issues, [Line |-> lineNum, Severity |-> "warning", Message |-> "export"])
                 ELSE acc.Issues
        eq    == IndexOf(line, "=")
        key   == TrimSpace(SubSeq(line, 1, eq - 1))
        val   == parseDotenvValue(TrimSpace(SubSeq(line, eq + 1, Len(line))))
        err(m) == [acc EXCEPT !.Issues =
                      Append(warn, [Line |-> lineNum, Severity |-> "error", Message |-> m])]
    IN  IF line0 = <<>> \/ HasPrefix(line0, <<"#">>) THEN acc
        ELSE IF eq = 0 THEN err("missing separator")
        ELSE IF key = <<>> THEN err("empty key")
        ELSE IF ~isValidEnvKey(key) THEN err("invalid key")
        ELSE IF ~val.ok THEN err("unterminated quoted value")
        ELSE [Values |-> MapSet(acc.Values, key, val.value),
              Order  |-> IF key \in DOMAIN acc.Values
                         THEN acc.Order ELSE Append(acc.Order, key),
              Issues |-> IF key \in DOMAIN acc.Values
                         THEN Append(warn, [Line |-> lineNum, Severity |-> "warning", Message |-> "duplicate key"])
                         ELSE warn]

RECURSIVE ParseDotenvLines(_, _, _)
ParseDotenvLines(acc, lines, lineNum) ==
    IF lines = <<>> THEN acc
    ELSE ParseDotenvLines(ParseDotenvLine(acc, Head(lines), lineNum),
                          Tail(lines), lineNum + 1)

\* ParseDotenv: [Values, Order, Issues]
ParseDotenv(data) == ParseDotenvLines(EmptyDotenv, ScanLines(data), 1)

\* a check that lets Error issues pass
HasError_Never(issues) == FALSE

\* an issue list has an Error-severity issue
HasError(issues) == \E i \in 1..Len(issues) : issues[i].Severity = "error"

\* the lines KEY=value for the keys of a sequence
RECURSIVE RenderLines(_, _)
RenderLines(values, keys) ==
    IF keys = <<>> THEN <<>>
    ELSE Head(keys) \o <<"=">> \o formatDotenvValue(values[Head(keys)]) \o <<"\n">>
             \o RenderLines(values, Tail(keys))

\* RenderDotenv: keys sorted lexically
RenderDotenv(values) == RenderLines(values, SortStrings(DOMAIN values))

\* the keys of order that are in values, each once, in order
RECURSIVE FilterOrder(_, _, _)
FilterOrder(order, keep, seen) ==
    IF order = <<>> THEN <<>>
    ELSE IF Head(order) \in keep /\ Head(order) \notin seen
    THEN <<Head(order)>> \o FilterOrder(Tail(order), keep, seen \cup {Head(order)})
    ELSE FilterOrder(Tail(order), keep, seen)

\* RenderDotenvOrdered: keys in the supplied order first, then the remaining
\* keys sorted lexically
RenderDotenvOrdered(values, order) ==
    LET first == FilterOrder(order, DOMAIN values, {})
    IN  RenderLines(values, first \o SortStrings(DOMAIN values \ Range(first)))

(***************************************************************************)
(* Dotenv, document mode                                                   *)
(***************************************************************************)

\* splitInlineComment: [value, comment]
splitInlineComment(value) ==
    LET cut == {i \in 1..Len(value) :
                  /\ value[i] = "#"
                  /\ (i = 1 \/ value[i - 1] \in {" ", "\t"})}
    IN  IF cut = {} THEN [value |-> value, comment |-> <<>>]
        ELSE LET i == CHOOSE k \in cut : \A j \in cut : k <= j
             IN  IF i = 1 THEN [value |-> <<>>, comment |-> TrimSpace(value)]
                 ELSE [value |-> TrimSpace(SubSeq(value, 1, i - 1)),
                       comment |-> TrimSpace(SubSeq(value, i, Len(value)))]

\* a DotenvLine that is kept as it was read
RawLine(kind, raw) ==
    [Kind |-> kind, Raw |-> raw, Key |-> <<>>, Value |-> <<>>, Comment |-> <<>>,
     HasExport |-> FALSE]

\* a DotenvLine of kind key
KeyLine(key, value, comment, hasExport) ==
    [Kind |-> "key", Raw |-> <<>>, Key |-> key, Value |-> value,
     Comment |-> comment, HasExport |-> hasExport]

\* the body of the scan loop of ParseDotenvDocument for one line; acc is
\* [Lines, Order, Issues, seen]
ParseDocumentLine(acc, raw, lineNum) ==
    LET trimmed   == TrimSpace(raw)
        hasExport == HasPrefix(trimmed, <<"e", "x", "p", "o", "r", "t", " ">>)
        payload   == IF hasExport
                     THEN TrimSpace(TrimPrefix(trimmed, <<"e", "x", "p", "o", "r", "t", " ">>))
                     ELSE trimmed
        eq        == IndexOf(payload, "=")
        key       == TrimSpace(SubSeq(payload, 1, eq - 1))
        valuePart == TrimSpace(SubSeq(payload, eq + 1, Len(payload)))
        bare      == /\ valuePart /= <<>>
                     /\ ~HasPrefix(valuePart, <<"\"">>)
                     /\ ~HasPrefix(valuePart, <<"'">>)
        split     == IF bare THEN splitInlineComment(valuePart)
                     ELSE [value |-> valuePart, comment |-> <<>>]
        val       == parseDotenvValue(TrimSpace(split.value))
        keep(kind) == [acc EXCEPT !.Lines = Append(@, RawLine(kind, raw))]
        err(m)    == [acc EXCEPT
                        !.Lines = Append(@, RawLine("other", raw)),
                        !.Issues = Append(@, [Line |-> lineNum, Severity |-> "error",
                                              Message |-> m])]
    IN  IF trimmed = <<>> THEN keep("blank")
        ELSE IF HasPrefix(trimmed, <<"#">>) THEN keep("comment")
        ELSE IF eq = 0 THEN err("missing separator")
        ELSE IF key = <<>> THEN err("empty key")
        ELSE IF ~isValidEnvKey(key) THEN err("invalid key")
        ELSE IF ~val.ok THEN err("unterminated quoted value")
        ELSE [Lines  |-> Append(acc.Lines,
                                KeyLine(key, val.value, split.comment, hasExport)),
              Order  |-> IF key \in acc.seen THEN acc.Order ELSE Append(acc.Order, key),
              Issues |-> IF key \in acc.seen
                         THEN Append(acc.Issues, [Line |-> lineNum, Severity |-> "warning",
                                                  Message |-> "duplicate key"])
                         ELSE acc.Issues,
              seen   |-> acc.seen \cup {key}]

RECURSIVE ParseDocumentLines(_, _, _)
ParseDocumentLines(acc, lines, lineNum) ==
    IF lines = <<>> THEN acc
    ELSE ParseDocumentLines(ParseDocumentLine(acc, Head(lines), lineNum),
                            Tail(lines), lineNum + 1)

\* ParseDotenvDocument: [Lines, Order, Issues]
ParseDotenvDocument(data) ==
    LET acc == ParseDocumentLines([Lines |-> <<>>, Order |-> <<>>, Issues |-> <<>>,
                                   seen |-> {}], ScanLines(data), 1)
    IN  [Lines |-> acc.Lines, Order |-> acc.Order, Issues |-> acc.Issues]

\* a Render that drops the white space around a blank or comment line
RenderDocumentLine_RawTrimmed(line) ==
    (IF line.Kind /= "key" THEN TrimSpace(line.Raw)
     ELSE (IF line.HasExport THEN <<"e", "x", "p", "o", "r", "t", " ">> ELSE <<>>)
            \o line.Key \o <<"=">> \o formatDotenvValue(line.Value)
            \o (IF line.Comment /= <<>> THEN <<" ">> \o line.Comment ELSE <<>>))
        \o <<"\n">>

\* DotenvDocument.Render of one line, with its line terminator
RenderDocumentLine(line) ==
    (IF line.Kind /= "key" THEN line.Raw
     ELSE (IF line.HasExport THEN <<"e", "x", "p", "o", "r", "t", " ">> ELSE <<>>)
            \o line.Key \o <<"=">> \o formatDotenvValue(line.Value)
            \o (IF line.Comment /= <<>> THEN <<" ">> \o line.Comment ELSE <<>>))
        \o <<"\n">>

\* DotenvDocument.Render
RECURSIVE Render(_)
Render(lines) ==
    IF lines = <<>> THEN <<>>
    ELSE RenderDocumentLine(Head(lines)) \o Render(Tail(lines))

(***************************************************************************)
(* Identifiers                                                             *)
(***************************************************************************)

\* ValidateIdentifier: TRUE when the name is accepted
ValidateIdentifier(name) ==
    /\ TrimSpace(name) /= <<>>
    /\ \A i \in 1..Len(name) :
          \/ Byte(name[i]) >= 97 /\ Byte(name[i]) <= 122
          \/ Byte(name[i]) >= 65 /\ Byte(name[i]) <= 90
          \/ Byte(name[i]) >= 48 /\ Byte(name[i]) <= 57
          \/ name[i] \in {"-", "_", "."}
    /\ ~\E i \in 1..(Len(name) - 1) : name[i] = "." /\ name[i + 1] = "."
    /\ ~ContainsAny(name, {"/", "\\"})

(***************************************************************************)
(* Index                                                                   *)
(***************************************************************************)

IndexVersion == 1

NewIndex == [Version |-> IndexVersion, Projects |-> <<>>]

ensureProject(idx, project) ==
    IF project \in DOMAIN idx.Projects THEN idx
    ELSE [idx EXCEPT !.Projects = MapSet(@, project, [Envs |-> <<>>])]

ensureEnv(idx, project, env) ==
    LET i1 == ensureProject(idx, project)
    IN  IF env \in DOMAIN i1.Projects[project].Envs THEN i1
        ELSE [i1 EXCEPT !.Projects[project].Envs =
                 MapSet(@, env, [Keys |-> <<>>, Files |-> <<>>])]

SetKey(idx, project, env, key, updated) ==
    [ensureEnv(idx, project, env) EXCEPT
        !.Projects[project].Envs[env].Keys = MapSet(@, key, [LastUpdated |-> updated])]

SetFile(idx, project, env, name, meta) ==
    [ensureEnv(idx, project, env) EXCEPT
        !.Projects[project].Envs[env].Files = MapSet(@, name, meta)]

\* the pruning tail shared by RemoveKey and RemoveFile: drop the env when it
\* has neither keys nor files, then the project when it has no env
Prune(idx, project, env) ==
    LET e == idx.Projects[project].Envs[env]
    IN  IF DOMAIN e.Keys /= {} \/ DOMAIN e.Files /= {} THEN idx
        ELSE LET envs == MapDelete(idx.Projects[project].Envs, env)
             IN  IF DOMAIN envs = {}
                 THEN [idx EXCEPT !.Projects = MapDelete(@, project)]
                 ELSE [idx EXCEPT !.Projects[project].Envs = envs]

\* a RemoveFile that leaves an env without keys and files in place
RemoveFile_KeepsEmptyEnv(idx, project, env, name) ==
    IF project \notin DOMAIN idx.Projects THEN idx
    ELSE IF env \notin DOMAIN idx.Projects[project].Envs THEN idx
    ELSE [idx EXCEPT !.Projects[project].Envs[env].Files = MapDelete(@, name)]

\* a RemoveKey that leaves the entry in place
RemoveKey_EntryKept(idx, project, env, key) == idx

RemoveKey(idx, project, env, key) ==
    IF project \notin DOMAIN idx.Projects THEN idx
    ELSE IF env \notin DOMAIN idx.Projects[project].Envs THEN idx
    ELSE Prune([idx EXCEPT !.Projects[project].Envs[env].Keys = MapDelete(@, key)],
               project, env)

RemoveFile(idx, project, env, name) ==
    IF project \notin DOMAIN idx.Projects THEN idx
    ELSE IF env \notin DOMAIN idx.Projects[project].Envs THEN idx
    ELSE Prune([idx EXCEPT !.Projects[project].Envs[env].Files = MapDelete(@, name)],
               project, env)

\* the key names the Index lists for (project, env) (Index.ListKeys)
ListKeys(idx, project, env) ==
    IF project \notin DOMAIN idx.Projects THEN {}
    ELSE IF env \notin DOMAIN idx.Projects[project].Envs THEN {}
    ELSE DOMAIN idx.Projects[project].Envs[env].Keys

\* the blob names the Index lists for (project, env) (Index.ListFiles)
ListFiles(idx, project, env) ==
    IF project \notin DOMAIN idx.Projects THEN {}
    ELSE IF env \notin DOMAIN idx.Projects[project].Envs THEN {}
    ELSE DOMAIN idx.Projects[project].Envs[env].Files

(***************************************************************************)
(* Capabilities: Encrypter, FileSystem, Clock                              *)
(***************************************************************************)

\* the content of a path that has no file (os.ErrNotExist)
NoFile == [absent |-> TRUE]

\* a plaintext file outside the vault: [exists, bytes]
Absent == [exists |-> FALSE, bytes |-> <<>>]
File(bytes) == [exists |-> TRUE, bytes |-> bytes]

\* Encrypter.EncryptDotenv: the ciphertext is opaque; it carries what the
\* matching Decrypt returns and the recipients it was encrypted for
EncryptDotenv(plaintext, recipients) == [plain |-> plaintext, rcpts |-> recipients]

\* Encrypter.DecryptDotenv
DecryptDotenv(ciphertext) == ciphertext.plain

\* Encrypter.EncryptBinary
EncryptBinary(plaintext, recipients) == [plain |-> plaintext, rcpts |-> recipients]

\* Encrypter.DecryptBinary
DecryptBinary(ciphertext) == ciphertext.plain

(***************************************************************************)
(* Inputs of the operations                                                *)
(***************************************************************************)

\* the largest timestamp Clock.Now returns
MaxClock == 0

\* the timestamps Clock.Now can return
Times == 0..MaxClock

\* clients that invoke vault operations
Procs == {1, 2}

ProjectArgs == {<<"p">>, <<".", ".">>}
EnvArgs == {<<"d">>}
KeyArgs == {<<"A">>, <<"B">>, <<"1">>}
ValueArgs == {<<"x">>, <<"\f">>, <<"x", " ", "y">>}
NameArgs == {<<"f">>}
DataArgs == {<<"x">>}
PathArgs == {<<"t">>, <<" ">>}
\* the env file ApplyEnvFile is pointed at: missing, A=y, a line without
\* separator, a comment followed by B=x with an inline comment, and A=y with
\* export prefix and inline comment followed by a blank line and a key that
\* no vault holds
TargetArgs ==
    {Absent,
     File(<<"A", "=", "y", "\n">>),
     File(<<"A", "\n">>),
     File(<<"#", "\n", "B", "=", "x", " ", "#", "x", "\n">>),
     File(<<"e", "x", "p", "o", "r", "t", " ", "A", "=", "y", " ", "#", "x", "\n", "\n", "C", "=", "z", "\n">>)}
InitRecipients == <<"r1">>

\* dotenv inputs of ImportEnv
InputArgs ==
    { <<"A", "=", "x", "\n">>,
      <<"B", "=", "x", "\n", "A", "=", "\"", "\f", "\"", "\n">>,
      <<"A", "\n">>,
      <<"e", "x", "p", "o", "r", "t", " ", "B", "=", "'", "'", "\n", "B", "=", "x", "\n">>,
      <<"#", "\n">> }

\* ImportOptions: a resolver is nil, answers with the vault value, answers
\* with the file value or fails
StrategyArgs == {"", "prefer-vault", "prefer-file", "interactive"}
ImportOptionArgs ==
    { [Strategy |-> s, Resolver |-> "nil", NoPreserveOrder |-> FALSE] :
        s \in StrategyArgs }
    \cup
    { [Strategy |-> "interactive", Resolver |-> r, NoPreserveOrder |-> FALSE] :
        r \in {"vault", "file", "fail"} }
    \cup
    { [Strategy |-> "prefer-file", Resolver |-> "nil", NoPreserveOrder |-> TRUE] }

\* the (project, env) pairs and blobs that pass validation
Projects == {p \in ProjectArgs : ValidateIdentifier(p)}
Envs == {e \in EnvArgs : ValidateIdentifier(e)}
Names == {n \in NameArgs : ValidateIdentifier(n)}

(***************************************************************************)
(* State                                                                   *)
(***************************************************************************)

VARIABLES
    config,     \* the config file: NoFile or a Config
    indexFile,  \* the index file: NoFile or an Index
    secrets,    \* the secret file of each (project, env): NoFile or ciphertext
    blobs,      \* the blob file of each (project, env, name): NoFile or ciphertext
    inv,        \* per client: the invocation in progress or the last one
    guard,      \* a call of a CLI guardrail: its inputs and its result
    atomic,     \* a run of writeFileAtomic, the files it touches and a reader
    document    \* a dotenv text going through document-mode parse and render

vars == <<config, indexFile, secrets, blobs, inv, guard, atomic, document>>
disk == <<config, indexFile, secrets, blobs>>
aside == <<guard, atomic, document>>

ZeroReport == [Added |-> 0, Updated |-> 0, Skipped |-> 0, Warnings |-> 0]

\* what a client holds before it has called anything; ports tells whether
\* the invocation has called the FileSystem or the Encrypter
Idle ==
    [pc |-> "idle", op |-> "none", project |-> <<>>, env |-> <<>>, key |-> <<>>,
     value |-> <<>>, name |-> <<>>, data |-> <<>>, input |-> <<>>,
     options |-> [Strategy |-> "", Resolver |-> "nil", NoPreserveOrder |-> FALSE],
     recipients |-> <<>>, dotenv |-> [Values |-> <<>>, Order |-> <<>>],
     parsed |-> [Values |-> <<>>, Order |-> <<>>],
     changed |-> {}, report |-> ZeroReport, meta |-> NoFile,
     ciphertext |-> NoFile, idx |-> NoFile, err |-> "",
     path |-> <<>>, onlyExisting |-> FALSE, target |-> Absent,
     targetBefore |-> Absent, payload |-> <<>>, ports |-> FALSE,
     pre |-> [indexFile |-> NoFile, secrets |-> <<>>, blobs |-> <<>>]]

\* the disk as it is when an invocation starts (kept for the properties)
Snapshot == [indexFile |-> indexFile, secrets |-> secrets, blobs |-> blobs]

\* the loop of DefaultConfig: each recipient is trimmed, and dropped when it
\* is blank or was seen before
RECURSIVE cleanRecipients(_, _)
cleanRecipients(recipients, seen) ==
    IF recipients = <<>> THEN <<>>
    ELSE LET r == TrimSpace(Head(recipients))
         IN  IF r = <<>> \/ r \in seen
             THEN cleanRecipients(Tail(recipients), seen)
             ELSE <<r>> \o cleanRecipients(Tail(recipients), seen \cup {r})

\* a DefaultConfig that keeps a recipient it has seen before
DefaultConfig_KeepsDuplicates(recipients) ==
    [Version |-> 1,
     Recipients |-> SelectSeq([n \in 1..Len(recipients) |-> TrimSpace(recipients[n])],
                              LAMBDA r : r /= <<>>)]

\* DefaultConfig
DefaultConfig(recipients) ==
    [Version |-> 1, Recipients |-> cleanRecipients(recipients, {})]

\* Config.Validate
Validate(cfg) ==
    /\ cfg.Version > 0
    /\ \A i \in 1..Len(cfg.Recipients) : TrimSpace(cfg.Recipients[i]) /= <<>>

\* no guardrail has been called
NoGuard == [pc |-> "none"]

\* writeFileAtomic is not running
NoAtomic == [pc |-> "none"]

\* no dotenv text is being parsed
NoDoc == [pc |-> "none"]

\* the state InitService.Init leaves: config and an empty index saved
InitVault ==
    /\ config = DefaultConfig(<<InitRecipients>>)
    /\ indexFile = NewIndex
    /\ secrets = [pe \in Projects \X Envs |-> NoFile]
    /\ blobs = [pen \in Projects \X Envs \X Names |-> NoFile]
    /\ inv = [i \in Procs |-> Idle]

Init ==
    /\ InitVault
    /\ guard = NoGuard
    /\ atomic = NoAtomic
    /\ document = NoDoc

\* an invocation returns err ("" is success)
Return(r, err) == [r EXCEPT !.pc = "done", !.err = err]

CanCall(i) == inv[i].pc = "idle"

\* the caller has taken the result of the invocation
Finish(i) ==
    /\ inv[i].pc = "done"
    /\ inv' = [inv EXCEPT ![i] = Idle]
    /\ UNCHANGED <<disk, aside>>

\* VaultStore.LoadConfig: [ok, cfg]
LoadConfig(file) ==
    IF file = NoFile THEN [ok |-> FALSE, cfg |-> NoFile]
    ELSE IF ~Validate(file) THEN [ok |-> FALSE, cfg |-> NoFile]
    ELSE [ok |-> TRUE, cfg |-> file]

\* VaultStore.LoadIndex: a missing index file is an empty Index
LoadIndex(file) ==
    IF file = NoFile THEN NewIndex
    ELSE [file EXCEPT !.Version = IF @ <= 0 THEN IndexVersion ELSE @]

\* SecretService.readEnv: [ok, dotenv]; a missing file is the empty dotenv
readEnv(file) ==
    IF file = NoFile
    THEN [ok |-> TRUE, dotenv |-> [Values |-> <<>>, Order |-> <<>>]]
    ELSE LET parsed == ParseDotenv(DecryptDotenv(file))
         IN  IF HasError(parsed.Issues)
             THEN [ok |-> FALSE, dotenv |-> [Values |-> <<>>, Order |-> <<>>]]
             ELSE [ok |-> TRUE,
                   dotenv |-> [Values |-> parsed.Values, Order |-> parsed.Order]]

\* the payload SecretService.writeEnv encrypts
writeEnvPayload(dotenv, preserveOrder) ==
    IF preserveOrder
    THEN RenderDotenvOrdered(dotenv.Values, dotenv.Order)
    ELSE RenderDotenv(dotenv.Values)

\* removeKeyFromOrder
RECURSIVE removeKeyFromOrder(_, _)
removeKeyFromOrder(order, key) ==
    IF order = <<>> THEN <<>>
    ELSE IF Head(order) = key THEN removeKeyFromOrder(Tail(order), key)
    ELSE <<Head(order)>> \o removeKeyFromOrder(Tail(order), key)

(***************************************************************************)
(* SecretService.Set                                                       *)
(***************************************************************************)

\* validation, LoadConfig, the recipients check, readEnv, the update of the
\* dotenv in memory, and the encryption and MkdirAll of writeEnv
SetCall(i, project, env, key, value) ==
    /\ CanCall(i)
    /\ LET v == [Idle EXCEPT !.op = "Set", !.project = project, !.env = env,
                             !.key = key, !.value = value, !.pre = Snapshot]
           \* the invocation once it has called the FileSystem
           r == [v EXCEPT !.ports = TRUE]
           \* c is the result of LoadConfig and e the result of readEnv
           Steps(c, e) ==
               LET d == [Values |-> MapSet(e.dotenv.Values, key, value),
                         Order  |-> IF key \in DOMAIN e.dotenv.Values
                                    THEN e.dotenv.Order
                                    ELSE Append(e.dotenv.Order, key)]
                   rd == [r EXCEPT !.dotenv = d, !.recipients = c.cfg.Recipients]
               IN  \/ inv' = [inv EXCEPT ![i] = Return(r, "config")]
                   \/ /\ c.ok
                      /\ Len(c.cfg.Recipients) = 0
                      /\ inv' = [inv EXCEPT ![i] = Return(r, "no recipients")]
                   \/ /\ c.ok
                      /\ Len(c.cfg.Recipients) > 0
                      /\ \/ inv' = [inv EXCEPT ![i] = Return(r, "read")]
                         \/ /\ ~e.ok
                            /\ inv' = [inv EXCEPT ![i] = Return(r, "vault dotenv error")]
                         \/ /\ e.ok
                            /\ inv' = [inv EXCEPT ![i] = Return(rd, "encrypt")]
                         \/ /\ e.ok
                            /\ inv' = [inv EXCEPT ![i] =
                                         [rd EXCEPT !.pc = "writeEnv",
                                                    !.ciphertext =
                                                        EncryptDotenv(writeEnvPayload(d, TRUE),
                                                                      c.cfg.Recipients)]]
       IN  IF ~ValidateIdentifier(project) \/ ~ValidateIdentifier(env)
                \/ ~IsValidEnvKey(key)
           THEN inv' = [inv EXCEPT ![i] = Return(v, "validation")]
           ELSE Steps(LoadConfig(config), readEnv(secrets[<<project, env>>]))
    /\ UNCHANGED <<disk, aside>>

\* a Set that reads the secret file again at the moment it writes and adds
\* its key to what it finds
SetWriteEnv_ReadsAgain(i) ==
    /\ inv[i].op = "Set" /\ inv[i].pc = "writeEnv"
    /\ LET r == inv[i]
           Write(e) ==
               secrets' = [secrets EXCEPT ![<<r.project, r.env>>] =
                             EncryptDotenv(
                                 writeEnvPayload(
                                     [Values |-> MapSet(e.dotenv.Values, r.key, r.value),
                                      Order  |-> IF r.key \in DOMAIN e.dotenv.Values
                                                 THEN e.dotenv.Order
                                                 ELSE Append(e.dotenv.Order, r.key)],
                                     TRUE),
                                 r.recipients)]
       IN  \/ /\ inv' = [inv EXCEPT ![i] = Return(r, "write")]
              /\ UNCHANGED secrets
           \/ /\ Write(readEnv(secrets[<<r.project, r.env>>]))
              /\ inv' = [inv EXCEPT ![i] = [r EXCEPT !.pc = "loadIndex"]]
    /\ UNCHANGED <<config, indexFile, blobs, aside>>

\* a Set that saves the Index entry before the secret file is written
SetWriteEnv_IndexFirst(i) ==
    /\ inv[i].op = "Set" /\ inv[i].pc = "writeEnv"
    /\ LET r == inv[i]
       IN  /\ indexFile' = SetKey(LoadIndex(indexFile), r.project, r.env, r.key, 0)
           /\ inv' = [inv EXCEPT ![i] = [r EXCEPT !.pc = "loadIndex"]]
    /\ UNCHANGED <<config, secrets, blobs, aside>>

\* writeFileAtomic of the secret file
SetWriteEnv(i) ==
    /\ inv[i].op = "Set" /\ inv[i].pc = "writeEnv"
    /\ LET r == inv[i]
       IN  \/ /\ inv' = [inv EXCEPT ![i] = Return(r, "write")]
              /\ UNCHANGED secrets
           \/ /\ secrets' = [secrets EXCEPT ![<<r.project, r.env>>] = r.ciphertext]
              /\ inv' = [inv EXCEPT ![i] = [r EXCEPT !.pc = "loadIndex"]]
    /\ UNCHANGED <<config, indexFile, blobs, aside>>

\* LoadIndex and SetKey
SetLoadIndex(i) ==
    /\ inv[i].op = "Set" /\ inv[i].pc = "loadIndex"
    /\ LET r == inv[i]
       IN  \/ inv' = [inv EXCEPT ![i] = Return(r, "index load")]
           \/ \E now \in Times :
                 inv' = [inv EXCEPT ![i] =
                           [r EXCEPT !.pc = "saveIndex",
                                     !.idx = SetKey(LoadIndex(indexFile), r.project,
                                                    r.env, r.key, now)]]
    /\ UNCHANGED <<disk, aside>>

\* SaveIndex
SetSaveIndex(i) ==
    /\ inv[i].op = "Set" /\ inv[i].pc = "saveIndex"
    /\ LET r == inv[i]
       IN  \/ /\ inv' = [inv EXCEPT ![i] = Return(r, "index save")]
              /\ UNCHANGED indexFile
           \/ /\ indexFile' = r.idx
              /\ inv' = [inv EXCEPT ![i] = Return(r, "")]
    /\ UNCHANGED <<config, secrets, blobs, aside>>

(***************************************************************************)
(* SecretService.Unset                                                     *)
(***************************************************************************)

\* validation, LoadConfig, readEnv, the removal of the key in memory and,
\* when keys remain, the encryption and MkdirAll of writeEnv
UnsetCall(i, project, env, key) ==
    /\ CanCall(i)
    /\ LET v == [Idle EXCEPT !.op = "Unset", !.project = project, !.env = env,
                             !.key = key, !.pre = Snapshot]
           \* the invocation once it has called the FileSystem
           r == [v EXCEPT !.ports = TRUE]
           \* c is the result of LoadConfig and e the result of readEnv
           Steps(c, e) ==
               LET d == [Values |-> MapDelete(e.dotenv.Values, key),
                         Order  |-> removeKeyFromOrder(e.dotenv.Order, key)]
                   rd == [r EXCEPT !.dotenv = d, !.recipients = c.cfg.Recipients]
               IN  \/ inv' = [inv EXCEPT ![i] = Return(r, "config")]
                   \/ /\ c.ok
                      /\ \/ inv' = [inv EXCEPT ![i] = Return(r, "read")]
                         \/ /\ ~e.ok
                            /\ inv' = [inv EXCEPT ![i] = Return(r, "vault dotenv error")]
                         \/ /\ e.ok
                            /\ key \notin DOMAIN e.dotenv.Values
                            /\ inv' = [inv EXCEPT ![i] = Return(r, "key not found")]
                         \/ /\ e.ok
                            /\ key \in DOMAIN e.dotenv.Values
                            /\ DOMAIN d.Values = {}
                            /\ inv' = [inv EXCEPT ![i] = [rd EXCEPT !.pc = "remove"]]
                         \/ /\ e.ok
                            /\ key \in DOMAIN e.dotenv.Values
                            /\ DOMAIN d.Values /= {}
                            /\ \/ inv' = [inv EXCEPT ![i] = Return(rd, "encrypt")]
                               \/ /\ Len(c.cfg.Recipients) > 0
                                  /\ inv' = [inv EXCEPT ![i] =
                                               [rd EXCEPT !.pc = "writeEnv",
                                                          !.ciphertext =
                                                              EncryptDotenv(
                                                                  writeEnvPayload(d, TRUE),
                                                                  c.cfg.Recipients)]]
       IN  IF ~ValidateIdentifier(project) \/ ~ValidateIdentifier(env)
                \/ ~IsValidEnvKey(key)
           THEN inv' = [inv EXCEPT ![i] = Return(v, "validation")]
           ELSE Steps(LoadConfig(config), readEnv(secrets[<<project, env>>]))
    /\ UNCHANGED <<disk, aside>>

\* an Unset that writes a ciphertext without keys when no key is left
UnsetRemove_WritesEmpty(i) ==
    /\ inv[i].op = "Unset" /\ inv[i].pc = "remove"
    /\ LET r == inv[i]
       IN  \/ /\ secrets[<<r.project, r.env>>] /= NoFile
              /\ inv' = [inv EXCEPT ![i] = Return(r, "remove")]
              /\ UNCHANGED secrets
           \/ /\ secrets' = [secrets EXCEPT ![<<r.project, r.env>>] =
                               EncryptDotenv(writeEnvPayload(r.dotenv, TRUE),
                                             r.recipients)]
              /\ inv' = [inv EXCEPT ![i] = [r EXCEPT !.pc = "loadIndex"]]
    /\ UNCHANGED <<config, indexFile, blobs, aside>>

\* FS.Remove of the secret file when no key is left; a file that is already
\* gone is not an error
UnsetRemove(i) ==
    /\ inv[i].op = "Unset" /\ inv[i].pc = "remove"
    /\ LET r == inv[i]
       IN  \/ /\ secrets[<<r.project, r.env>>] /= NoFile
              /\ inv' = [inv EXCEPT ![i] = Return(r, "remove")]
              /\ UNCHANGED secrets
           \/ /\ secrets' = [secrets EXCEPT ![<<r.project, r.env>>] = NoFile]
              /\ inv' = [inv EXCEPT ![i] = [r EXCEPT !.pc = "loadIndex"]]
    /\ UNCHANGED <<config, indexFile, blobs, aside>>

\* writeFileAtomic of the secret file when keys remain
UnsetWriteEnv(i) ==
    /\ inv[i].op = "Unset" /\ inv[i].pc = "writeEnv"
    /\ LET r == inv[i]
       IN  \/ /\ inv' = [inv EXCEPT ![i] = Return(r, "write")]
              /\ UNCHANGED secrets
           \/ /\ secrets' = [secrets EXCEPT ![<<r.project, r.env>>] = r.ciphertext]
              /\ inv' = [inv EXCEPT ![i] = [r EXCEPT !.pc = "loadIndex"]]
    /\ UNCHANGED <<config, indexFile, blobs, aside>>

\* LoadIndex and RemoveKey
UnsetLoadIndex(i) ==
    /\ inv[i].op = "Unset" /\ inv[i].pc = "loadIndex"
    /\ LET r == inv[i]
       IN  \/ inv' = [inv EXCEPT ![i] = Return(r, "index load")]
           \/ inv' = [inv EXCEPT ![i] =
                        [r EXCEPT !.pc = "saveIndex",
                                  !.idx = RemoveKey(LoadIndex(indexFile), r.project,
                                                    r.env, r.key)]]
    /\ UNCHANGED <<disk, aside>>

\* SaveIndex
UnsetSaveIndex(i) ==
    /\ inv[i].op = "Unset" /\ inv[i].pc = "saveIndex"
    /\ LET r == inv[i]
       IN  \/ /\ inv' = [inv EXCEPT ![i] = Return(r, "index save")]
              /\ UNCHANGED indexFile
           \/ /\ indexFile' = r.idx
              /\ inv' = [inv EXCEPT ![i] = Return(r, "")]
    /\ UNCHANGED <<config, secrets, blobs, aside>>

(***************************************************************************)
(* SecretService.ImportEnv                                                 *)
(***************************************************************************)

\* a ConflictResolver: [ok, value]
Resolve(resolver, key, vaultValue, fileValue) ==
    CASE resolver = "vault" -> [ok |-> TRUE, value |-> vaultValue]
      [] resolver = "file"  -> [ok |-> TRUE, value |-> fileValue]
      [] OTHER              -> [ok |-> FALSE, value |-> <<>>]

\* the sequences that enumerate a finite set once each (Go iterates a map in
\* an unspecified order)
RECURSIVE Perms(_)
Perms(S) ==
    IF S = {} THEN {<<>>}
    ELSE UNION {{<<k>> \o t : t \in Perms(S \ {k})} : k \in S}

\* a merge step that does not count a key that is already in the vault
ImportStep_ConflictNotCounted(acc, key, fileValue, options) ==
    IF key \notin DOMAIN acc.values
    THEN [acc EXCEPT !.values = MapSet(@, key, fileValue),
                     !.report.Added = @ + 1,
                     !.changed = @ \cup {key}]
    ELSE acc

\* the body of the merge loop of ImportEnv for one key of the input; acc is
\* [values, report, changed, err]
ImportStep(acc, key, fileValue, options) ==
    LET exists    == key \in DOMAIN acc.values
        strategy  == IF options.Strategy = "" THEN "prefer-vault"
                     ELSE options.Strategy
        added     == [acc EXCEPT !.values = MapSet(@, key, fileValue),
                                 !.report.Added = @ + 1,
                                 !.changed = @ \cup {key}]
        updated(v) == [acc EXCEPT !.values = MapSet(@, key, v),
                                  !.report.Updated = @ + 1,
                                  !.changed = @ \cup {key}]
        skipped   == [acc EXCEPT !.report.Skipped = @ + 1]
        resolved  == Resolve(options.Resolver, key, acc.values[key], fileValue)
    IN  IF ~exists THEN added
        ELSE CASE strategy = "prefer-file" -> updated(fileValue)
               [] strategy = "interactive" ->
                    IF options.Resolver = "nil"
                    THEN [acc EXCEPT !.err = "resolver required"]
                    ELSE IF ~resolved.ok
                    THEN [acc EXCEPT !.err = "resolver"]
                    ELSE IF resolved.value = acc.values[key] THEN skipped
                    ELSE updated(resolved.value)
               [] OTHER -> skipped

\* the merge loop of ImportEnv over the keys of the input in the order keys;
\* it stops at the first error
RECURSIVE ImportLoop(_, _, _, _)
ImportLoop(acc, parsedValues, keys, options) ==
    IF keys = <<>> \/ acc.err /= "" THEN acc
    ELSE ImportLoop(ImportStep(acc, Head(keys), parsedValues[Head(keys)], options),
                    parsedValues, Tail(keys), options)

\* a merge that keeps the vault's keys in front of the file's keys
mergeOrder_VaultFirst(existing, file, values) ==
    LET fromVault == FilterOrder(existing, DOMAIN values, {})
        fromFile  == FilterOrder(file, DOMAIN values, Range(fromVault))
    IN  fromVault \o fromFile \o SortStrings(DOMAIN values \ Range(fromVault \o fromFile))

\* mergeOrder
mergeOrder(existing, file, values) ==
    LET fromFile  == FilterOrder(file, DOMAIN values, {})
        fromVault == FilterOrder(existing, DOMAIN values, Range(fromFile))
        order     == fromFile \o fromVault
    IN  IF Cardinality(Range(order)) = Cardinality(DOMAIN values) THEN order
        ELSE order \o SortStrings(DOMAIN values \ Range(order))

\* the number of Warning issues that precede the first Error issue
RECURSIVE WarningsBeforeError(_)
WarningsBeforeError(issues) ==
    IF issues = <<>> \/ Head(issues).Severity = "error" THEN 0
    ELSE 1 + WarningsBeforeError(Tail(issues))

\* validation, ParseDotenv of the input, LoadConfig, the recipients check,
\* readEnv, the merge loop, mergeOrder, and the encryption and MkdirAll of
\* writeEnv
ImportCall(i, project, env, input, options) ==
    /\ CanCall(i)
    /\ LET r == [Idle EXCEPT !.op = "ImportEnv", !.project = project, !.env = env,
                             !.input = input, !.options = options,
                             !.pre = Snapshot]
           preserveOrder == ~options.NoPreserveOrder
           \* rp is the invocation after parsing, c the result of LoadConfig,
           \* e the result of readEnv, and m what the merge loop leaves
           Merged(rp, c, e, m) ==
               LET d == [Values |-> m.values,
                         Order  |-> IF preserveOrder
                                    THEN mergeOrder(e.dotenv.Order, rp.parsed.Order,
                                                    m.values)
                                    ELSE e.dotenv.Order]
                   rm == [rp EXCEPT !.report = m.report,
                                    !.changed = m.changed,
                                    !.dotenv = d,
                                    !.recipients = c.cfg.Recipients]
               IN  IF m.err /= ""
                   THEN inv' = [inv EXCEPT ![i] = Return(rm, m.err)]
                   ELSE \/ inv' = [inv EXCEPT ![i] = Return(rm, "encrypt")]
                        \/ inv' = [inv EXCEPT ![i] =
                                     [rm EXCEPT !.pc = "writeEnv",
                                                !.ciphertext =
                                                    EncryptDotenv(
                                                        writeEnvPayload(d, preserveOrder),
                                                        c.cfg.Recipients)]]
           Steps(rp, c, e) ==
               \/ inv' = [inv EXCEPT ![i] = Return(rp, "config")]
               \/ /\ c.ok
                  /\ Len(c.cfg.Recipients) = 0
                  /\ inv' = [inv EXCEPT ![i] = Return(rp, "no recipients")]
               \/ /\ c.ok
                  /\ Len(c.cfg.Recipients) > 0
                  /\ \/ inv' = [inv EXCEPT ![i] = Return(rp, "read")]
                     \/ /\ ~e.ok
                        /\ inv' = [inv EXCEPT ![i] = Return(rp, "vault dotenv error")]
                     \/ /\ e.ok
                        /\ \E keys \in Perms(DOMAIN rp.parsed.Values) :
                             Merged(rp, c, e,
                                    ImportLoop([values |-> e.dotenv.Values,
                                                report |-> rp.report,
                                                changed |-> {}, err |-> ""],
                                               rp.parsed.Values, keys, options))
           Parsed(parsed) ==
               LET rp == [r EXCEPT
                            !.parsed = [Values |-> parsed.Values, Order |-> parsed.Order],
                            !.report.Warnings = WarningsBeforeError(parsed.Issues)]
               IN  IF HasError(parsed.Issues)
                   THEN inv' = [inv EXCEPT ![i] = Return(rp, "dotenv error")]
                   ELSE Steps([rp EXCEPT !.ports = TRUE], LoadConfig(config),
                              readEnv(secrets[<<project, env>>]))
       IN  IF ~ValidateIdentifier(project) \/ ~ValidateIdentifier(env)
           THEN inv' = [inv EXCEPT ![i] = Return(r, "validation")]
           ELSE Parsed(ParseDotenv(input))
    /\ UNCHANGED <<disk, aside>>

\* writeFileAtomic of the secret file
ImportWriteEnv(i) ==
    /\ inv[i].op = "ImportEnv" /\ inv[i].pc = "writeEnv"
    /\ LET r == inv[i]
       IN  \/ /\ inv' = [inv EXCEPT ![i] = Return(r, "write")]
              /\ UNCHANGED secrets
           \/ /\ secrets' = [secrets EXCEPT ![<<r.project, r.env>>] = r.ciphertext]
              /\ inv' = [inv EXCEPT ![i] = [r EXCEPT !.pc = "loadIndex"]]
    /\ UNCHANGED <<config, indexFile, blobs, aside>>

\* SetKey for every key of a set (the order does not matter: the keys differ)
RECURSIVE SetKeys(_, _, _, _, _)
SetKeys(idx, project, env, keys, now) ==
    IF keys = {} THEN idx
    ELSE LET k == CHOOSE k \in keys : TRUE
         IN  SetKeys(SetKey(idx, project, env, k, now), project, env, keys \ {k}, now)

\* LoadIndex and SetKey for every changed key
ImportLoadIndex(i) ==
    /\ inv[i].op = "ImportEnv" /\ inv[i].pc = "loadIndex"
    /\ LET r == inv[i]
       IN  \/ inv' = [inv EXCEPT ![i] = Return(r, "index load")]
           \/ \E now \in Times :
                 inv' = [inv EXCEPT ![i] =
                           [r EXCEPT !.pc = "saveIndex",
                                     !.idx = SetKeys(LoadIndex(indexFile), r.project,
                                                     r.env, r.changed, now)]]
    /\ UNCHANGED <<disk, aside>>

\* SaveIndex
ImportSaveIndex(i) ==
    /\ inv[i].op = "ImportEnv" /\ inv[i].pc = "saveIndex"
    /\ LET r == inv[i]
       IN  \/ /\ inv' = [inv EXCEPT ![i] = Return(r, "index save")]
              /\ UNCHANGED indexFile
           \/ /\ indexFile' = r.idx
              /\ inv' = [inv EXCEPT ![i] = Return(r, "")]
    /\ UNCHANGED <<config, secrets, blobs, aside>>

(***************************************************************************)
(* FileService.Put                                                         *)
(***************************************************************************)

\* buildFileMetadata: the digest is the plaintext it identifies; every
\* non-empty sample of the model is text
buildFileMetadata(data) ==
    [Size |-> Len(data), SHA256 |-> data,
     MIME |-> IF Len(data) > 0 THEN "text/plain; charset=utf-8"
              ELSE "application/octet-stream",
     LastUpdated |-> 0]

\* validation, LoadConfig, the recipients check, EncryptBinary and MkdirAll
PutCall(i, project, env, name, data) ==
    /\ CanCall(i)
    /\ LET v == [Idle EXCEPT !.op = "Put", !.project = project, !.env = env,
                             !.name = name, !.data = data, !.pre = Snapshot]
           \* the invocation once it has called the FileSystem
           r == [v EXCEPT !.ports = TRUE]
           c == LoadConfig(config)
       IN  IF ~ValidateIdentifier(project) \/ ~ValidateIdentifier(env)
                \/ ~ValidateIdentifier(name)
           THEN inv' = [inv EXCEPT ![i] = Return(v, "validation")]
           ELSE \/ inv' = [inv EXCEPT ![i] = Return(r, "config")]
                \/ /\ c.ok
                   /\ IF Len(c.cfg.Recipients) = 0
                      THEN inv' = [inv EXCEPT ![i] = Return(r, "no recipients")]
                      ELSE \/ inv' = [inv EXCEPT ![i] = Return(r, "encrypt")]
                           \/ inv' = [inv EXCEPT ![i] =
                                        [r EXCEPT !.pc = "writeBlob",
                                                  !.recipients = c.cfg.Recipients,
                                                  !.ciphertext =
                                                      EncryptBinary(data, c.cfg.Recipients)]]
    /\ UNCHANGED <<disk, aside>>

\* a Put that goes on to the Index when the blob write has failed
PutWrite_GoesOnAfterFailure(i) ==
    /\ inv[i].op = "Put" /\ inv[i].pc = "writeBlob"
    /\ LET r == inv[i]
       IN  \/ /\ inv' = [inv EXCEPT ![i] = [r EXCEPT !.pc = "loadIndex"]]
              /\ UNCHANGED blobs
           \/ /\ blobs' = [blobs EXCEPT ![<<r.project, r.env, r.name>>] = r.ciphertext]
              /\ inv' = [inv EXCEPT ![i] = [r EXCEPT !.pc = "loadIndex"]]
    /\ UNCHANGED <<config, indexFile, secrets, aside>>

\* a blob write that reports a failure after the file has been replaced
PutWrite_FailsAfterWriting(i) ==
    /\ inv[i].op = "Put" /\ inv[i].pc = "writeBlob"
    /\ LET r == inv[i]
       IN  \/ /\ inv' = [inv EXCEPT ![i] = Return(r, "write")]
              /\ blobs' = [blobs EXCEPT ![<<r.project, r.env, r.name>>] = r.ciphertext]
           \/ /\ blobs' = [blobs EXCEPT ![<<r.project, r.env, r.name>>] = r.ciphertext]
              /\ inv' = [inv EXCEPT ![i] = [r EXCEPT !.pc = "loadIndex"]]
    /\ UNCHANGED <<config, indexFile, secrets, aside>>

\* writeFileAtomic of the blob
PutWrite(i) ==
    /\ inv[i].op = "Put" /\ inv[i].pc = "writeBlob"
    /\ LET r == inv[i]
       IN  \/ /\ inv' = [inv EXCEPT ![i] = Return(r, "write")]
              /\ UNCHANGED blobs
           \/ /\ blobs' = [blobs EXCEPT ![<<r.project, r.env, r.name>>] = r.ciphertext]
              /\ inv' = [inv EXCEPT ![i] = [r EXCEPT !.pc = "loadIndex"]]
    /\ UNCHANGED <<config, indexFile, secrets, aside>>

\* buildFileMetadata, Clock.Now, LoadIndex and SetFile
PutLoadIndex(i) ==
    /\ inv[i].op = "Put" /\ inv[i].pc = "loadIndex"
    /\ \E now \in Times :
         LET r == inv[i]
             meta == [buildFileMetadata(r.data) EXCEPT !.LastUpdated = now]
         IN  \/ inv' = [inv EXCEPT ![i] = Return([r EXCEPT !.meta = meta], "index load")]
             \/ inv' = [inv EXCEPT ![i] =
                          [r EXCEPT !.pc = "saveIndex", !.meta = meta,
                                    !.idx = SetFile(LoadIndex(indexFile), r.project,
                                                    r.env, r.name, meta)]]
    /\ UNCHANGED <<disk, aside>>

\* SaveIndex
PutSaveIndex(i) ==
    /\ inv[i].op = "Put" /\ inv[i].pc = "saveIndex"
    /\ LET r == inv[i]
       IN  \/ /\ inv' = [inv EXCEPT ![i] = Return(r, "index save")]
              /\ UNCHANGED indexFile
           \/ /\ indexFile' = r.idx
              /\ inv' = [inv EXCEPT ![i] = Return(r, "")]
    /\ UNCHANGED <<config, secrets, blobs, aside>>

(***************************************************************************)
(* FileService.Get                                                         *)
(***************************************************************************)

\* fileMetadataFromIndex: [ok, meta]
fileMetadataFromIndex(idx, project, env, name) ==
    IF name \in ListFiles(idx, project, env)
    THEN [ok |-> TRUE, meta |-> idx.Projects[project].Envs[env].Files[name]]
    ELSE [ok |-> FALSE, meta |-> NoFile]

\* the metadata Get returns: computed from the plaintext, with the fields
\* the Index has stored put over it
GetMetadata(plaintext, stored) ==
    LET meta == buildFileMetadata(plaintext)
    IN  IF ~stored.ok THEN meta
        ELSE [Size |-> IF stored.meta.Size > 0 THEN stored.meta.Size ELSE meta.Size,
              SHA256 |-> IF stored.meta.SHA256 /= <<>> THEN stored.meta.SHA256
                         ELSE meta.SHA256,
              MIME |-> IF stored.meta.MIME /= "" THEN stored.meta.MIME ELSE meta.MIME,
              LastUpdated |-> stored.meta.LastUpdated]

\* a Get that reads the blob file before it has validated the file name
GetCall_ReadsFirst(i, project, env, name) ==
    /\ CanCall(i)
    /\ LET v == [Idle EXCEPT !.op = "Get", !.project = project, !.env = env,
                             !.name = name, !.pre = Snapshot]
           r == [v EXCEPT !.ports = TRUE]
           Steps(file) ==
               \/ inv' = [inv EXCEPT ![i] = Return(r, "read")]
               \/ /\ file /= NoFile
                  /\ \/ inv' = [inv EXCEPT ![i] = Return(r, "decrypt")]
                     \/ \E stored \in {[ok |-> FALSE, meta |-> NoFile],
                                        fileMetadataFromIndex(LoadIndex(indexFile),
                                                              project, env, name)} :
                           inv' = [inv EXCEPT ![i] =
                                     Return([r EXCEPT
                                               !.data = DecryptBinary(file),
                                               !.meta = GetMetadata(DecryptBinary(file),
                                                                    stored)],
                                            "")]
       IN  IF ~ValidateIdentifier(project) \/ ~ValidateIdentifier(env)
           THEN inv' = [inv EXCEPT ![i] = Return(v, "validation")]
           ELSE IF ~ValidateIdentifier(name)
           THEN inv' = [inv EXCEPT ![i] = Return(r, "validation")]
           ELSE Steps(blobs[<<project, env, name>>])
    /\ UNCHANGED <<disk, aside>>

\* Get: validation, ReadFile of the blob, DecryptBinary, and the metadata,
\* for which a LoadIndex that fails is passed over
GetCall(i, project, env, name) ==
    /\ CanCall(i)
    /\ LET v == [Idle EXCEPT !.op = "Get", !.project = project, !.env = env,
                             !.name = name, !.pre = Snapshot]
           \* the invocation once it has called the FileSystem
           r == [v EXCEPT !.ports = TRUE]
           Steps(file) ==
               \/ inv' = [inv EXCEPT ![i] = Return(r, "read")]
               \/ /\ file /= NoFile
                  /\ \/ inv' = [inv EXCEPT ![i] = Return(r, "decrypt")]
                     \/ \E stored \in {[ok |-> FALSE, meta |-> NoFile],
                                        fileMetadataFromIndex(LoadIndex(indexFile),
                                                              project, env, name)} :
                           inv' = [inv EXCEPT ![i] =
                                     Return([r EXCEPT
                                               !.data = DecryptBinary(file),
                                               !.meta = GetMetadata(DecryptBinary(file),
                                                                    stored)],
                                            "")]
       IN  IF ~ValidateIdentifier(project) \/ ~ValidateIdentifier(env)
                \/ ~ValidateIdentifier(name)
           THEN inv' = [inv EXCEPT ![i] = Return(v, "validation")]
           ELSE Steps(blobs[<<project, env, name>>])
    /\ UNCHANGED <<disk, aside>>

(***************************************************************************)
(* SecretService.ApplyEnvFile. The env file at path is outside the vault;  *)
(* the invocation holds its content as target.                             *)
(***************************************************************************)

\* the first loop of applyValuesToDocument: [lines, updated]
RECURSIVE ApplyToLines(_, _)
ApplyToLines(lines, values) ==
    IF lines = <<>> THEN [lines |-> <<>>, updated |-> 0]
    ELSE LET line == Head(lines)
             rest == ApplyToLines(Tail(lines), values)
         IN  IF line.Kind = "key" /\ line.Key \in DOMAIN values
             THEN [lines   |-> <<[line EXCEPT !.Value = values[line.Key]]>> \o rest.lines,
                   updated |-> rest.updated
                                 + (IF line.Value /= values[line.Key] THEN 1 ELSE 0)]
             ELSE [lines |-> <<line>> \o rest.lines, updated |-> rest.updated]

\* an applyValuesToDocument that counts every key line it finds in the
\* vault as updated, changed or not
applyValuesToDocument_CountsMatches(lines, values, onlyExisting) ==
    LET first    == ApplyToLines(lines, values)
        existing == {lines[n].Key : n \in {m \in 1..Len(lines) : lines[m].Kind = "key"}}
        missing  == SortStrings(DOMAIN values \ existing)
        matched  == Cardinality({m \in 1..Len(lines) :
                                   lines[m].Kind = "key" /\ lines[m].Key \in DOMAIN values})
    IN  IF onlyExisting
        THEN [lines |-> first.lines, updated |-> matched, added |-> 0]
        ELSE [lines   |-> first.lines
                            \o [n \in 1..Len(missing) |->
                                  KeyLine(missing[n], values[missing[n]], <<>>, FALSE)],
              updated |-> matched,
              added   |-> Len(missing)]

\* applyValuesToDocument: [lines, updated, added]
applyValuesToDocument(lines, values, onlyExisting) ==
    LET first    == ApplyToLines(lines, values)
        existing == {lines[n].Key : n \in {m \in 1..Len(lines) : lines[m].Kind = "key"}}
        missing  == SortStrings(DOMAIN values \ existing)
    IN  IF onlyExisting
        THEN [lines |-> first.lines, updated |-> first.updated, added |-> 0]
        ELSE [lines   |-> first.lines
                            \o [n \in 1..Len(missing) |->
                                  KeyLine(missing[n], values[missing[n]], <<>>, FALSE)],
              updated |-> first.updated,
              added   |-> Len(missing)]

\* validation, Stat, readEnv, ReadFile, ParseDotenvDocument,
\* applyValuesToDocument and Render
ApplyCall(i, project, env, path, target, onlyExisting) ==
    /\ CanCall(i)
    /\ LET v == [Idle EXCEPT !.op = "ApplyEnvFile", !.project = project,
                             !.env = env, !.path = path, !.target = target,
                             !.targetBefore = target,
                             !.onlyExisting = onlyExisting, !.pre = Snapshot]
           \* the invocation once it has called the FileSystem
           r == [v EXCEPT !.ports = TRUE]
           \* doc is the parsed env file and a what applyValuesToDocument
           \* returns
           Applied(doc, a) ==
               \/ /\ HasError(doc.Issues)
                  /\ inv' = [inv EXCEPT ![i] = Return(r, "dotenv error")]
               \/ /\ ~HasError(doc.Issues)
                  /\ a.updated = 0 /\ a.added = 0
                  /\ inv' = [inv EXCEPT ![i] = Return(r, "")]
               \/ /\ ~HasError(doc.Issues)
                  /\ a.updated /= 0 \/ a.added /= 0
                  /\ inv' = [inv EXCEPT ![i] =
                               [r EXCEPT !.pc = "writeTarget",
                                         !.payload = Render(a.lines),
                                         !.report.Updated = a.updated,
                                         !.report.Added = a.added]]
           Read(e, doc) ==
               Applied(doc, applyValuesToDocument(doc.Lines, e.dotenv.Values,
                                                  onlyExisting))
           \* e is the result of readEnv
           Steps(e) ==
               \/ inv' = [inv EXCEPT ![i] = Return(r, "read")]
               \/ /\ ~e.ok
                  /\ inv' = [inv EXCEPT ![i] = Return(r, "vault dotenv error")]
               \/ /\ e.ok
                  /\ \/ inv' = [inv EXCEPT ![i] = Return(r, "read file")]
                     \/ Read(e, ParseDotenvDocument(target.bytes))
       IN  IF ~ValidateIdentifier(project) \/ ~ValidateIdentifier(env)
           THEN inv' = [inv EXCEPT ![i] = Return(v, "validation")]
           ELSE IF TrimSpace(path) = <<>>
           THEN inv' = [inv EXCEPT ![i] = Return(v, "path required")]
           ELSE IF ~target.exists
           THEN inv' = [inv EXCEPT ![i] = Return(r, "stat")]
           ELSE Steps(readEnv(secrets[<<project, env>>]))
    /\ UNCHANGED <<disk, aside>>

\* writeFileAtomic of the env file
ApplyWrite(i) ==
    /\ inv[i].op = "ApplyEnvFile" /\ inv[i].pc = "writeTarget"
    /\ LET r == inv[i]
       IN  \/ inv' = [inv EXCEPT ![i] = Return([r EXCEPT !.report = ZeroReport], "write")]
           \/ inv' = [inv EXCEPT ![i] = Return([r EXCEPT !.target = File(r.payload)], "")]
    /\ UNCHANGED <<disk, aside>>

(***************************************************************************)
(* SecretService.ExportEnv                                                 *)
(***************************************************************************)

\* the payload ExportEnvWithOptions renders from what readEnv returned
ExportPayload(dotenv, noPreserveOrder) ==
    IF noPreserveOrder
    THEN RenderDotenv(dotenv.Values)
    ELSE RenderDotenvOrdered(dotenv.Values, dotenv.Order)

\* ExportEnvWithOptions, from validation to the rendered payload
ExportEnvWithOptions(i, project, env, noPreserveOrder) ==
    /\ CanCall(i)
    /\ LET v == [Idle EXCEPT !.op = "ExportEnv", !.project = project, !.env = env,
                             !.options.NoPreserveOrder = noPreserveOrder,
                             !.pre = Snapshot]
           \* the invocation once it has called the FileSystem
           r == [v EXCEPT !.ports = TRUE]
           \* e is the result of readEnv
           Steps(e) ==
               \/ inv' = [inv EXCEPT ![i] = Return(r, "read")]
               \/ /\ ~e.ok
                  /\ inv' = [inv EXCEPT ![i] = Return(r, "vault dotenv error")]
               \/ /\ e.ok
                  /\ inv' = [inv EXCEPT ![i] =
                               Return([r EXCEPT !.dotenv = e.dotenv,
                                                !.payload =
                                                    ExportPayload(e.dotenv, noPreserveOrder)],
                                      "")]
       IN  IF ~ValidateIdentifier(project) \/ ~ValidateIdentifier(env)
           THEN inv' = [inv EXCEPT ![i] = Return(v, "validation")]
           ELSE Steps(readEnv(secrets[<<project, env>>]))
    /\ UNCHANGED <<disk, aside>>

\* ExportEnv: the ordered export of a secret file that can be read
ExportEnv(file) == ExportPayload(readEnv(file).dotenv, FALSE)

(***************************************************************************)
(* Specifications                                                          *)
(***************************************************************************)

\* one client, one invocation at a time
Next ==
    \/ Finish(1)
    \/ \E p \in ProjectArgs, e \in EnvArgs, k \in KeyArgs, v \in ValueArgs :
          SetCall(1, p, e, k, v)
    \/ SetWriteEnv(1)
    \/ SetLoadIndex(1)
    \/ SetSaveIndex(1)
    \/ \E p \in ProjectArgs, e \in EnvArgs, k \in KeyArgs : UnsetCall(1, p, e, k)
    \/ UnsetRemove(1)
    \/ UnsetWriteEnv(1)
    \/ UnsetLoadIndex(1)
    \/ UnsetSaveIndex(1)
    \/ \E p \in ProjectArgs, e \in EnvArgs, in \in InputArgs, o \in ImportOptionArgs :
          ImportCall(1, p, e, in, o)
    \/ ImportWriteEnv(1)
    \/ ImportLoadIndex(1)
    \/ ImportSaveIndex(1)
    \/ \E p \in ProjectArgs, e \in EnvArgs, n \in NameArgs, d \in DataArgs :
          PutCall(1, p, e, n, d)
    \/ PutWrite(1)
    \/ PutLoadIndex(1)
    \/ PutSaveIndex(1)
    \/ \E p \in ProjectArgs, e \in EnvArgs, t \in PathArgs, f \in TargetArgs,
          o \in BOOLEAN : ApplyCall(1, p, e, t, f, o)
    \/ ApplyWrite(1)
    \/ \E p \in ProjectArgs, e \in EnvArgs, o \in BOOLEAN :
          ExportEnvWithOptions(1, p, e, o)

Spec == Init /\ [][Next]_vars

(***************************************************************************)
(* The CLI guardrails. A path is [abs, parts]: whether it starts at the    *)
(* file-system root, and its elements, each a string. An absolute, clean   *)
(* path is the sequence of its elements.                                   *)
(***************************************************************************)

DotDot == <<".", ".">>
Dot == <<".">>

\* filepath.Clean of an absolute path, given as its elements; done holds the
\* elements cleaned so far
RECURSIVE Clean(_, _)
Clean(done, parts) ==
    IF parts = <<>> THEN done
    ELSE IF Head(parts) = Dot \/ Head(parts) = <<>> THEN Clean(done, Tail(parts))
    ELSE IF Head(parts) = DotDot
    THEN Clean(IF done = <<>> THEN done ELSE SubSeq(done, 1, Len(done) - 1),
               Tail(parts))
    ELSE Clean(Append(done, Head(parts)), Tail(parts))

\* filepath.Abs with the working directory cwd
Abs(cwd, path) ==
    IF path.abs THEN Clean(<<>>, path.parts) ELSE Clean(<<>>, cwd \o path.parts)

\* the number of leading elements two absolute paths share
RECURSIVE CommonPrefix(_, _)
CommonPrefix(a, b) ==
    IF a = <<>> \/ b = <<>> \/ Head(a) /= Head(b) THEN 0
    ELSE 1 + CommonPrefix(Tail(a), Tail(b))

\* the elements of a path joined with the separator
RECURSIVE JoinPath(_)
JoinPath(parts) ==
    IF parts = <<>> THEN <<>>
    ELSE IF Len(parts) = 1 THEN Head(parts)
    ELSE Head(parts) \o <<"/">> \o JoinPath(Tail(parts))

\* filepath.Rel of two absolute clean paths, as a string
Rel(base, targ) ==
    LET c == CommonPrefix(base, targ)
    IN  IF base = targ THEN Dot
        ELSE JoinPath([n \in 1..(Len(base) - c) |-> DotDot]
                      \o SubSeq(targ, c + 1, Len(targ)))

\* isWithinRoot
isWithinRoot(root, path) ==
    LET rel == Rel(root, path)
    IN  rel /= Dot /\ ~HasPrefix(rel, DotDot)

\* Git.TopLevel: whether it returns a repository root
TopLevel(git) == git \notin {"toplevel error"}

\* Git.IsPathTracked: [ok, tracked]
IsPathTracked(git) ==
    CASE git = "rel error" -> [ok |-> FALSE, tracked |-> FALSE]
      [] git = "tracked"   -> [ok |-> TRUE, tracked |-> TRUE]
      [] OTHER             -> [ok |-> TRUE, tracked |-> FALSE]

\* a guardOutputPath that lets force override the git check
guardOutputPath_ForceOverridesGit(g) ==
    LET absPath == Abs(g.cwd, g.outPath)
        tracked == /\ ~g.allowGit /\ g.git /= "nil" /\ TopLevel(g.git)
                   /\ IsPathTracked(g.git).ok /\ IsPathTracked(g.git).tracked
        exists  == ~g.force /\ g.stat = "exists"
    IN  IF isWithinRoot(g.root, absPath) THEN "inside vault"
        ELSE IF ~g.force /\ g.stat = "error" THEN "stat error"
        ELSE IF tracked /\ ~g.allowGit /\ ~g.force
        THEN (IF exists /\ ~g.force THEN "exists and tracked" ELSE "tracked")
        ELSE IF ~g.force /\ exists THEN "exists"
        ELSE "ok"

\* App.guardOutputPath: "ok" or the refusal
guardOutputPath(g) ==
    LET absPath == Abs(g.cwd, g.outPath)
        tracked == /\ ~g.allowGit /\ g.git /= "nil" /\ TopLevel(g.git)
                   /\ IsPathTracked(g.git).ok /\ IsPathTracked(g.git).tracked
        exists  == ~g.force /\ g.stat = "exists"
    IN  IF isWithinRoot(g.root, absPath) THEN "inside vault"
        ELSE IF ~g.force /\ g.stat = "error" THEN "stat error"
        ELSE IF tracked /\ ~g.allowGit
        THEN (IF exists /\ ~g.force THEN "exists and tracked" ELSE "tracked")
        ELSE IF ~g.force /\ exists THEN "exists"
        ELSE "ok"

\* App.guardUpdatePath: "ok" or the refusal
guardUpdatePath(g) ==
    LET absPath == Abs(g.cwd, g.outPath)
    IN  IF isWithinRoot(g.root, absPath) THEN "inside vault"
        ELSE IF g.allowGit \/ g.git = "nil" THEN "ok"
        ELSE IF ~TopLevel(g.git) THEN "ok"
        ELSE IF ~IsPathTracked(g.git).ok THEN "ok"
        ELSE IF IsPathTracked(g.git).tracked THEN "tracked"
        ELSE "ok"

\* the vault root, /v
VaultRoot == << <<"v">> >>

\* working directories: the vault root and /w
CwdArgs == {VaultRoot, << <<"w">> >>}

\* output paths: o, s/o, ..o, ../w/o, ../v/..o/o, /v/s/o, /v/..o, /v, /w/o,
\* /v/s/../../w/o
OutPathArgs ==
    {[abs |-> FALSE, parts |-> << <<"o">> >>],
     [abs |-> FALSE, parts |-> << <<"s">>, <<"o">> >>],
     [abs |-> FALSE, parts |-> << <<".", ".", "o">> >>],
     [abs |-> FALSE, parts |-> << DotDot, <<"w">>, <<"o">> >>],
     [abs |-> FALSE, parts |-> << DotDot, <<"v">>, <<".", ".", "o">>, <<"o">> >>],
     [abs |-> TRUE, parts |-> << <<"v">>, <<"s">>, <<"o">> >>],
     [abs |-> TRUE, parts |-> << <<"v">>, <<".", ".", "o">> >>],
     [abs |-> TRUE, parts |-> << <<"v">> >>],
     [abs |-> TRUE, parts |-> << <<"w">>, <<"o">> >>],
     [abs |-> TRUE, parts |-> << <<"v">>, <<"s">>, DotDot, DotDot, <<"w">>, <<"o">> >>]}

\* what os.Stat of the output path reports
StatArgs == {"exists", "not exist", "error"}

\* the Git capability: absent, failing in TopLevel, failing in IsPathTracked,
\* or answering
GitArgs == {"nil", "toplevel error", "rel error", "tracked", "untracked"}

GuardInputs ==
    [pc : {"input"}, root : {VaultRoot}, cwd : CwdArgs, outPath : OutPathArgs,
     allowGit : BOOLEAN, force : BOOLEAN, stat : StatArgs, git : GitArgs]

InitGuard ==
    /\ InitVault
    /\ guard \in GuardInputs
    /\ atomic = NoAtomic
    /\ document = NoDoc

\* export-env and file get call guardOutputPath
GuardOutput ==
    /\ guard.pc = "input"
    /\ guard' = [pc |-> "done", op |-> "guardOutputPath", in |-> guard,
                 result |-> guardOutputPath(guard)]
    /\ UNCHANGED <<disk, inv, atomic, document>>

\* apply-env calls guardUpdatePath
GuardUpdate ==
    /\ guard.pc = "input"
    /\ guard' = [pc |-> "done", op |-> "guardUpdatePath", in |-> guard,
                 result |-> guardUpdatePath(guard)]
    /\ UNCHANGED <<disk, inv, atomic, document>>

NextGuard == GuardOutput \/ GuardUpdate

SpecGuard == InitGuard /\ [][NextGuard]_vars

\* the absolute path a guard was called with
GuardedPath == Abs(guard.in.cwd, guard.in.outPath)

\* the path is a file or directory below the vault root
InsideRoot(path) ==
    /\ Len(path) > Len(VaultRoot)
    /\ SubSeq(path, 1, Len(VaultRoot)) = VaultRoot

\* C4: guardOutputPath and guardUpdatePath refuse every path below the vault
\* root, whatever its name and whatever force and allowGit are.
C4_InsideVaultRefused ==
    (guard.pc = "done" /\ InsideRoot(GuardedPath)) => guard.result /= "ok"

\* C5: for a path outside the vault root whose Stat succeeds or reports
\* not-exist, guardOutputPath permits the write exactly when (force or the
\* path does not exist) and (allowGit or Git does not report it tracked).
C5_OutsideVaultPermitted ==
    LET g == guard.in
    IN  (/\ guard.pc = "done" /\ guard.op = "guardOutputPath"
         /\ ~InsideRoot(GuardedPath) /\ GuardedPath /= VaultRoot
         /\ g.stat /= "error")
        => (guard.result = "ok"
              <=> /\ g.force \/ g.stat = "not exist"
                  /\ g.allowGit \/ g.git /= "tracked")

\* a tracked path is refused although force is set
C5_Witness ==
    /\ guard.pc = "done" /\ guard.op = "guardOutputPath"
    /\ ~InsideRoot(GuardedPath) /\ GuardedPath /= VaultRoot
    /\ guard.in.force /\ ~guard.in.allowGit /\ guard.in.git = "tracked"
    /\ guard.in.stat = "exists"
    /\ guard.result = "tracked"

(***************************************************************************)
(* writeFileAtomic, step by step, with a reader of the target path. A file *)
(* is [exists, bytes]. Rename is one step of the file system.              *)
(***************************************************************************)

\* the longest file content the runs of writeFileAtomic are drawn from
MaxDataLen == 2

\* the byte strings of at most MaxDataLen bytes
Contents == UNION {[1..n -> {"a", "b"}] : n \in 0..MaxDataLen}

Unread == [did |-> FALSE, content |-> Absent]

InitAtomic ==
    /\ InitVault
    /\ guard = NoGuard
    /\ document = NoDoc
    /\ atomic \in {[pc |-> "createTemp", old |-> o, target |-> o, tmp |-> Absent,
                    data |-> d, seen |-> Unread, err |-> ""] :
                      o \in {Absent} \cup {File(c) : c \in Contents}, d \in Contents}

\* os.CreateTemp in the directory of the target
AtomicCreateTemp ==
    /\ atomic.pc = "createTemp"
    /\ \/ atomic' = [atomic EXCEPT !.pc = "done", !.err = "create"]
       \/ atomic' = [atomic EXCEPT !.pc = "chmod", !.tmp = File(<<>>)]
    /\ UNCHANGED <<disk, inv, guard, document>>

\* tmp.Chmod
AtomicChmod ==
    /\ atomic.pc = "chmod"
    /\ \/ atomic' = [atomic EXCEPT !.pc = "remove", !.err = "chmod"]
       \/ atomic' = [atomic EXCEPT !.pc = "write"]
    /\ UNCHANGED <<disk, inv, guard, document>>

\* a write that goes through to the target path
AtomicWrite_InPlace ==
    /\ atomic.pc = "write"
    /\ LET n == Len(atomic.tmp.bytes)
       IN  \/ /\ n < Len(atomic.data)
              /\ atomic' = [atomic EXCEPT
                              !.tmp = File(SubSeq(atomic.data, 1, n + 1)),
                              !.target = File(SubSeq(atomic.data, 1, n + 1))]
           \/ /\ n = Len(atomic.data)
              /\ atomic' = [atomic EXCEPT !.pc = "close"]
           \/ atomic' = [atomic EXCEPT !.pc = "remove", !.err = "write"]
    /\ UNCHANGED <<disk, inv, guard, document>>

\* tmp.Write: the bytes reach the temporary file one after the other, and the
\* write can fail after any of them
AtomicWrite ==
    /\ atomic.pc = "write"
    /\ LET n == Len(atomic.tmp.bytes)
       IN  \/ /\ n < Len(atomic.data)
              /\ atomic' = [atomic EXCEPT
                              !.tmp = File(SubSeq(atomic.data, 1, n + 1))]
           \/ /\ n = Len(atomic.data)
              /\ atomic' = [atomic EXCEPT !.pc = "close"]
           \/ atomic' = [atomic EXCEPT !.pc = "remove", !.err = "write"]
    /\ UNCHANGED <<disk, inv, guard, document>>

\* tmp.Close
AtomicClose ==
    /\ atomic.pc = "close"
    /\ \/ atomic' = [atomic EXCEPT !.pc = "remove", !.err = "close"]
       \/ atomic' = [atomic EXCEPT !.pc = "rename"]
    /\ UNCHANGED <<disk, inv, guard, document>>

\* a Rename whose failure returns without the removal of the temporary file
AtomicRename_LeavesTemp ==
    /\ atomic.pc = "rename"
    /\ \/ atomic' = [atomic EXCEPT !.pc = "done", !.err = "rename"]
       \/ atomic' = [atomic EXCEPT !.pc = "remove", !.target = atomic.tmp,
                                   !.tmp = Absent]
    /\ UNCHANGED <<disk, inv, guard, document>>

\* fs.Rename of the temporary file onto the target
AtomicRename ==
    /\ atomic.pc = "rename"
    /\ \/ atomic' = [atomic EXCEPT !.pc = "remove", !.err = "rename"]
       \/ atomic' = [atomic EXCEPT !.pc = "remove", !.target = atomic.tmp,
                                   !.tmp = Absent]
    /\ UNCHANGED <<disk, inv, guard, document>>

\* the deferred os.Remove of the temporary file
AtomicRemove ==
    /\ atomic.pc = "remove"
    /\ atomic' = [atomic EXCEPT !.pc = "done", !.tmp = Absent]
    /\ UNCHANGED <<disk, inv, guard, document>>

\* another process reads the target path
AtomicRead ==
    /\ atomic.pc \notin {"none", "done"}
    /\ atomic' = [atomic EXCEPT !.seen = [did |-> TRUE, content |-> atomic.target]]
    /\ UNCHANGED <<disk, inv, guard, document>>

NextAtomic ==
    \/ AtomicCreateTemp
    \/ AtomicChmod
    \/ AtomicWrite
    \/ AtomicClose
    \/ AtomicRename
    \/ AtomicRemove
    \/ AtomicRead

SpecAtomic == InitAtomic /\ [][NextAtomic]_vars

\* C6: while writeFileAtomic replaces a file, a reader of the target path
\* sees the complete old content or the complete new content.
C6_ReaderSeesOldOrNew ==
    (atomic.pc /= "none" /\ atomic.seen.did) =>
        atomic.seen.content \in {atomic.old, File(atomic.data)}

\* the reader saw the old content while the temporary file was half written
C6_Witness ==
    /\ atomic.pc = "write"
    /\ Len(atomic.tmp.bytes) > 0 /\ Len(atomic.tmp.bytes) < Len(atomic.data)
    /\ atomic.old.exists /\ atomic.old.bytes /= <<>>
    /\ atomic.seen.did /\ atomic.seen.content = atomic.old

(***************************************************************************)
(* Document-mode parse and render of a dotenv text, as ApplyEnvFile and    *)
(* the dotenv commands run them: parse, render, and the same again on the  *)
(* rendered text.                                                          *)
(***************************************************************************)

\* the largest number of lines of a dotenv text
MaxDocLines == 2

\* lines of a dotenv text: blank, comments (one indented, one ending in a
\* carriage return), key lines in normal form, with spacing, with export and
\* an inline comment, quoted, quoted white space, a value with a space and
\* an inline comment, and a line without separator
LineArgs ==
    { <<>>,
      <<" ", "#", " ", "x">>,
      <<"#", "x", "\r">>,
      <<"A", "=", "x">>,
      <<" ", "A", " ", "=", " ", "x">>,
      <<"e", "x", "p", "o", "r", "t", " ", "A", "=", "x", " ", "#", " ", "x">>,
      <<"B", "=", "'", "x", "'">>,
      <<"B", "=", "\"", "\f", "\"">>,
      <<"B", "=", "x", " ", "y", " ", "#", "x">>,
      <<"A">> }

\* the texts of n lines, every line ended by a line feed
RECURSIVE TextsOf(_)
TextsOf(n) ==
    IF n = 0 THEN {<<>>}
    ELSE {l \o <<"\n">> \o t : l \in LineArgs, t \in TextsOf(n - 1)}

\* dotenv texts of up to MaxDocLines lines, the last line with or without
\* its line feed
DocumentArgs ==
    LET full == UNION {TextsOf(n) : n \in 0..MaxDocLines}
    IN  full \cup {SubSeq(t, 1, Len(t) - 1) : t \in full \ {<<>>}}

InitDoc ==
    /\ InitVault
    /\ guard = NoGuard
    /\ atomic = NoAtomic
    /\ document \in {[pc |-> "input", data |-> d, parsed |-> NoFile, rounds |-> <<>>] :
                  d \in DocumentArgs}

\* ParseDotenvDocument of the text
DocParse ==
    /\ document.pc = "input"
    /\ document' = [document EXCEPT !.pc = "parsed", !.parsed = ParseDotenvDocument(document.data)]
    /\ UNCHANGED <<disk, inv, guard, atomic>>

\* DotenvDocument.Render of the parsed document, no line mutated
DocRender ==
    /\ document.pc = "parsed"
    /\ document' = [document EXCEPT !.pc = "rendered",
                          !.rounds = Append(@, [input  |-> document.data,
                                                Lines  |-> document.parsed.Lines,
                                                Order  |-> document.parsed.Order,
                                                Issues |-> document.parsed.Issues,
                                                output |-> Render(document.parsed.Lines)])]
    /\ UNCHANGED <<disk, inv, guard, atomic>>

\* the rendered text is read again
DocAgain ==
    /\ document.pc = "rendered"
    /\ Len(document.rounds) = 1
    /\ document' = [document EXCEPT !.pc = "input", !.data = document.rounds[1].output,
                          !.parsed = NoFile]
    /\ UNCHANGED <<disk, inv, guard, atomic>>

NextDoc == DocParse \/ DocRender \/ DocAgain

SpecDoc == InitDoc /\ [][NextDoc]_vars

\* the first parse and render of the text are done
Rendered == document.pc /= "none" /\ Len(document.rounds) >= 1

\* the rendered text has been parsed and rendered again
RenderedTwice == document.pc /= "none" /\ Len(document.rounds) = 2

\* the number of lines of kind key
KeyLines(lines) == Cardinality({i \in 1..Len(lines) : lines[i].Kind = "key"})

\* C13: for every dotenv text that parses in document mode without Error
\* issues and has no duplicate keys, rendering the parse of the rendered
\* text gives the rendered text again.
C13_RenderIdempotent ==
    (/\ RenderedTwice
     /\ ~HasError(document.rounds[1].Issues)
     /\ KeyLines(document.rounds[1].Lines) = Len(document.rounds[1].Order))
    => document.rounds[2].output = document.rounds[1].output

RenderedLine(round, i) ==
    LET raw  == ScanLines(round.input)[i]
        line == round.Lines[i]
    IN  IF TrimSpace(raw) = <<>> \/ HasPrefix(TrimSpace(raw), <<"#">>) THEN raw
        ELSE (IF HasPrefix(TrimSpace(raw), <<"e", "x", "p", "o", "r", "t", " ">>)
              THEN <<"e", "x", "p", "o", "r", "t", " ">> ELSE <<>>)
             \o line.Key \o <<"=">> \o formatDotenvValue(line.Value)
             \o (IF line.Comment = <<>> THEN <<>> ELSE <<" ">> \o line.Comment)

RotatePairs == {<<<<"p">>, <<"d">>>>, <<<<"p">>, <<"e">>>>, <<<<"q">>, <<"d">>>>}

\* recipients given to keys add and keys remove; one is blank and one has a
\* space around it
RecipientArgs == {<<"r1">>, <<"r2">>, <<" ">>, <<" ", "r2">>}

\* the plaintexts of the secret files at the start
PlaintextArgs == {<<"A", "=", "x", "\n">>, <<"B", "=", "x", "\n">>}

ZeroRotateReport == [Total |-> 0, Rotated |-> 0, Failed |-> 0, Errors |-> <<>>]

\* what a client of KeysService holds before it has called anything; files
\* are the paths ListSecretFiles returned, next the position of the loop,
\* outcome what happened to each file so far
KeysIdle ==
    [pc |-> "idle", op |-> "none", err |-> "", recipient |-> <<>>, cfg |-> NoFile,
     files |-> <<>>, next |-> 1, outcome |-> <<>>, report |-> ZeroRotateReport,
     pre |-> [config |-> NoFile, secrets |-> <<>>]]

\* the Index that lists key for every pair that has a secret file
RECURSIVE IndexOfPairs(_, _)
IndexOfPairs(pairs, keyOf) ==
    IF pairs = {} THEN NewIndex
    ELSE LET pe == CHOOSE x \in pairs : TRUE
         IN  SetKey(IndexOfPairs(pairs \ {pe}, keyOf), pe[1], pe[2], keyOf[pe], 0)

\* idx with the entry of every blob of a set, as Put makes it
RECURSIVE IndexOfBlobs(_, _)
IndexOfBlobs(idx, present) ==
    IF present = {} THEN idx
    ELSE LET pen == CHOOSE x \in present : TRUE
         IN  SetFile(IndexOfBlobs(idx, present \ {pen}), pen[1], pen[2], pen[3],
                     buildFileMetadata(<<"x">>))

\* a vault after Init, some Sets and maybe a Put, with its config file or
\* without it (a directory named by --vault need not have one)
InitKeys ==
    /\ config \in {DefaultConfig(<<InitRecipients>>), NoFile}
    /\ secrets \in [RotatePairs ->
                      {NoFile} \cup {EncryptDotenv(t, <<InitRecipients>>) :
                                       t \in PlaintextArgs}]
    /\ blobs \in [Projects \X Envs \X Names ->
                    {NoFile, EncryptBinary(<<"x">>, <<InitRecipients>>)}]
    /\ indexFile = IndexOfBlobs(
                      IndexOfPairs({pe \in RotatePairs : secrets[pe] /= NoFile},
                                   [pe \in RotatePairs |->
                                      IF secrets[pe] = NoFile THEN <<>>
                                      ELSE <<Head(DecryptDotenv(secrets[pe]))>>]),
                      {pen \in DOMAIN blobs : blobs[pen] /= NoFile})
    /\ inv = [i \in Procs |-> KeysIdle]
    /\ guard = NoGuard
    /\ atomic = NoAtomic
    /\ document = NoDoc

\* the error of VaultStore.LoadConfig: the error of ReadFile for a missing
\* file, which is os.ErrNotExist to errors.Is, or a validation error
LoadConfigError(file) == IF file = NoFile THEN "config not exist" ELSE "config"

\* errors.Is(err, os.ErrNotExist)
IsNotExist(err) == err \in {"not exist", "config not exist"}

\* the caller has taken the result of the invocation
KeysFinish(i) ==
    /\ inv[i].pc = "done"
    /\ inv' = [inv EXCEPT ![i] = KeysIdle]
    /\ UNCHANGED <<disk, aside>>

\* KeysService.Add
KeysAdd(i, recipient) ==
    /\ CanCall(i)
    /\ LET r == [KeysIdle EXCEPT !.op = "Add", !.recipient = TrimSpace(recipient)]
           \* c is the result of LoadConfig
           Steps(c) ==
               \/ /\ inv' = [inv EXCEPT ![i] = Return(r, "config")]
                  /\ UNCHANGED config
               \/ /\ ~c.ok
                  /\ inv' = [inv EXCEPT ![i] = Return(r, LoadConfigError(config))]
                  /\ UNCHANGED config
               \/ /\ c.ok
                  /\ r.recipient \in Range(c.cfg.Recipients)
                  /\ inv' = [inv EXCEPT ![i] = Return(r, "")]
                  /\ UNCHANGED config
               \/ /\ c.ok
                  /\ r.recipient \notin Range(c.cfg.Recipients)
                  /\ \/ /\ inv' = [inv EXCEPT ![i] = Return(r, "save")]
                        /\ UNCHANGED config
                     \/ /\ config' = [c.cfg EXCEPT !.Recipients = Append(@, r.recipient)]
                        /\ inv' = [inv EXCEPT ![i] = Return(r, "")]
       IN  IF r.recipient = <<>>
           THEN /\ inv' = [inv EXCEPT ![i] = Return(r, "recipient empty")]
                /\ UNCHANGED config
           ELSE Steps(LoadConfig(config))
    /\ UNCHANGED <<indexFile, secrets, blobs, aside>>

\* KeysService.Remove
KeysRemove(i, recipient) ==
    /\ CanCall(i)
    /\ LET r == [KeysIdle EXCEPT !.op = "Remove", !.recipient = TrimSpace(recipient)]
           \* c is the result of LoadConfig
           Steps(c) ==
               \/ /\ inv' = [inv EXCEPT ![i] = Return(r, "config")]
                  /\ UNCHANGED config
               \/ /\ ~c.ok
                  /\ inv' = [inv EXCEPT ![i] = Return(r, LoadConfigError(config))]
                  /\ UNCHANGED config
               \/ /\ c.ok
                  /\ \/ /\ inv' = [inv EXCEPT ![i] = Return(r, "save")]
                        /\ UNCHANGED config
                     \/ /\ config' = [c.cfg EXCEPT !.Recipients =
                                        removeKeyFromOrder(@, r.recipient)]
                        /\ inv' = [inv EXCEPT ![i] = Return(r, "")]
       IN  IF r.recipient = <<>>
           THEN /\ inv' = [inv EXCEPT ![i] = Return(r, "recipient empty")]
                /\ UNCHANGED config
           ELSE Steps(LoadConfig(config))
    /\ UNCHANGED <<indexFile, secrets, blobs, aside>>

\* the name of the secret file of env in its project directory
EnvFileName(env) == env \o <<".", "e", "n", "v">>

\* VaultStore.ListSecretFiles: the pairs that have a secret file, in the
\* order of the walk (ReadDir returns the entries of a directory sorted by
\* file name)
ListSecretFiles(sec) ==
    LET present   == {pe \in DOMAIN sec : sec[pe] /= NoFile}
        projects  == SortStrings({pe[1] : pe \in present})
        names(pr) == SortStrings({EnvFileName(pe[2]) : pe \in {x \in present : x[1] = pr}})
        inDir(pr) == [n \in 1..Len(names(pr)) |->
                        <<pr, SubSeq(names(pr)[n], 1, Len(names(pr)[n]) - 4)>>]
    IN  Concat([n \in 1..Len(projects) |-> inDir(projects[n])])

\* KeysService.Rotate up to the loop: LoadConfig, the recipients check and
\* ListSecretFiles; without secret files it returns os.ErrNotExist
RotateCall(i) ==
    /\ CanCall(i)
    /\ LET r == [KeysIdle EXCEPT !.op = "Rotate",
                                 !.pre = [config |-> config, secrets |-> secrets]]
           \* c is the result of LoadConfig and files of ListSecretFiles
           Steps(c, files) ==
               \/ inv' = [inv EXCEPT ![i] = Return(r, "config")]
               \/ /\ ~c.ok
                  /\ inv' = [inv EXCEPT ![i] = Return(r, LoadConfigError(config))]
               \/ /\ c.ok
                  /\ Len(c.cfg.Recipients) = 0
                  /\ inv' = [inv EXCEPT ![i] = Return(r, "no recipients")]
               \/ /\ c.ok
                  /\ Len(c.cfg.Recipients) > 0
                  /\ \/ inv' = [inv EXCEPT ![i] = Return(r, "list")]
                     \/ /\ files = <<>>
                        /\ inv' = [inv EXCEPT ![i] = Return(r, "not exist")]
                     \/ /\ files /= <<>>
                        /\ inv' = [inv EXCEPT ![i] =
                                     [r EXCEPT !.pc = "file", !.cfg = c.cfg,
                                               !.files = files]]
       IN  Steps(LoadConfig(config), ListSecretFiles(secrets))
    /\ UNCHANGED <<disk, aside>>

\* a Rotate that stops at the first file that fails
RotateFile_StopsAtFailure(i) ==
    /\ inv[i].op = "Rotate" /\ inv[i].pc = "file"
    /\ LET r    == inv[i]
           path == r.files[r.next]
           last == r.next = Len(r.files)
           \* the invocation after this file, counted as failed or rotated
           After(what) ==
               LET failed == what /= "rotated"
                   rn == [r EXCEPT !.next = @ + 1,
                                   !.outcome = Append(@, what),
                                   !.report.Total = @ + 1,
                                   !.report.Failed = IF failed THEN @ + 1 ELSE @,
                                   !.report.Rotated = IF failed THEN @ ELSE @ + 1,
                                   !.report.Errors =
                                       IF failed THEN Append(@, <<path, what>>) ELSE @]
               IN  IF last \/ failed THEN Return(rn, "") ELSE rn
       IN  \/ /\ \E what \in {"read", "decrypt", "encrypt", "write"} :
                    /\ what = "read" \/ secrets[path] /= NoFile
                    /\ inv' = [inv EXCEPT ![i] = After(what)]
              /\ UNCHANGED secrets
           \/ /\ secrets[path] /= NoFile
              /\ secrets' = [secrets EXCEPT ![path] =
                               EncryptDotenv(DecryptDotenv(secrets[path]),
                                             r.cfg.Recipients)]
              /\ inv' = [inv EXCEPT ![i] = After("rotated")]
    /\ UNCHANGED <<config, indexFile, blobs, aside>>

\* a Rotate that encrypts each file for the recipients the config file has
\* when the file is written
RotateFile_CurrentRecipients(i) ==
    /\ inv[i].op = "Rotate" /\ inv[i].pc = "file"
    /\ LET r    == inv[i]
           path == r.files[r.next]
           last == r.next = Len(r.files)
           \* the invocation after this file, counted as failed or rotated
           After(what) ==
               LET failed == what /= "rotated"
                   rn == [r EXCEPT !.next = @ + 1,
                                   !.outcome = Append(@, what),
                                   !.report.Total = @ + 1,
                                   !.report.Failed = IF failed THEN @ + 1 ELSE @,
                                   !.report.Rotated = IF failed THEN @ ELSE @ + 1,
                                   !.report.Errors =
                                       IF failed THEN Append(@, <<path, what>>) ELSE @]
               IN  IF last THEN Return(rn, "") ELSE rn
       IN  \/ /\ \E what \in {"read", "decrypt", "encrypt", "write"} :
                    /\ what = "read" \/ secrets[path] /= NoFile
                    /\ inv' = [inv EXCEPT ![i] = After(what)]
              /\ UNCHANGED secrets
           \/ /\ secrets[path] /= NoFile
              /\ secrets' = [secrets EXCEPT ![path] =
                               EncryptDotenv(DecryptDotenv(secrets[path]),
                                             IF config = NoFile THEN r.cfg.Recipients
                                             ELSE config.Recipients)]
              /\ inv' = [inv EXCEPT ![i] = After("rotated")]
    /\ UNCHANGED <<config, indexFile, blobs, aside>>

\* one pass of the loop of Rotate: ReadFile, DecryptDotenv, EncryptDotenv
\* for the recipients of the config loaded at the start and writeFileAtomic;
\* after the last file Rotate returns nil
RotateFile(i) ==
    /\ inv[i].op = "Rotate" /\ inv[i].pc = "file"
    /\ LET r    == inv[i]
           path == r.files[r.next]
           last == r.next = Len(r.files)
           \* the invocation after this file, counted as failed or rotated
           After(what) ==
               LET failed == what /= "rotated"
                   rn == [r EXCEPT !.next = @ + 1,
                                   !.outcome = Append(@, what),
                                   !.report.Total = @ + 1,
                                   !.report.Failed = IF failed THEN @ + 1 ELSE @,
                                   !.report.Rotated = IF failed THEN @ ELSE @ + 1,
                                   !.report.Errors =
                                       IF failed THEN Append(@, <<path, what>>) ELSE @]
               IN  IF last THEN Return(rn, "") ELSE rn
       IN  \/ /\ \E what \in {"read", "decrypt", "encrypt", "write"} :
                    /\ what = "read" \/ secrets[path] /= NoFile
                    /\ inv' = [inv EXCEPT ![i] = After(what)]
              /\ UNCHANGED secrets
           \/ /\ secrets[path] /= NoFile
              /\ secrets' = [secrets EXCEPT ![path] =
                               EncryptDotenv(DecryptDotenv(secrets[path]),
                                             r.cfg.Recipients)]
              /\ inv' = [inv EXCEPT ![i] = After("rotated")]
    /\ UNCHANGED <<config, indexFile, blobs, aside>>

\* the keys rotate command of App.runKeys, from what Rotate returned:
\* [message, exit]
runKeysRotate(r) ==
    IF r.err /= ""
    THEN IF IsNotExist(r.err)
         THEN [message |-> "no secrets to rotate", exit |-> 0]
         ELSE [message |-> "error", exit |-> 1]
    ELSE [message |-> "rotation complete",
          exit |-> IF r.report.Failed > 0 THEN 1 ELSE 0]

\* client 1 rotates once; client 2 adds and removes recipients before,
\* during and after the rotation
NextKeys ==
    \/ KeysFinish(2)
    \/ RotateCall(1)
    \/ RotateFile(1)
    \/ \E rc \in RecipientArgs : KeysAdd(2, rc)
    \/ \E rc \in RecipientArgs : KeysRemove(2, rc)

SpecKeys == InitKeys /\ [][NextKeys]_vars

(***************************************************************************)
(* InitService.Init, on a directory without a vault or on a vault that     *)
(* holds secret files. Client 1 initializes; client 2 adds and removes     *)
(* recipients.                                                             *)
(***************************************************************************)

\* InitOptions.Root
RootArgs == {<<"v">>, <<" ">>}

\* InitOptions.Recipients as given on the command line: none, one, and a
\* list with an untrimmed, a blank and a repeated recipient
InitRecipientArgs ==
    {<<>>,
     <<<<"r1">>>>,
     <<<<" ", "r1">>, <<" ">>, <<"r1">>, <<"r2">>>>}

\* what the client of InitService holds before it has called Init
InitIdle ==
    [pc |-> "idle", op |-> "none", err |-> "", root |-> <<>>, recipients |-> <<>>,
     force |-> FALSE, cfg |-> NoFile]

\* a directory without a vault, or a vault after Init and some Sets
InitInit ==
    /\ \/ /\ config = NoFile
          /\ secrets = [pe \in RotatePairs |-> NoFile]
          /\ indexFile = NoFile
       \/ /\ config = DefaultConfig(<<InitRecipients>>)
          /\ secrets \in [RotatePairs ->
                            {NoFile} \cup {EncryptDotenv(t, <<InitRecipients>>) :
                                             t \in PlaintextArgs}]
          /\ indexFile = IndexOfPairs({pe \in RotatePairs : secrets[pe] /= NoFile},
                                      [pe \in RotatePairs |->
                                         IF secrets[pe] = NoFile THEN <<>>
                                         ELSE <<Head(DecryptDotenv(secrets[pe]))>>])
    /\ blobs = [pen \in Projects \X Envs \X Names |-> NoFile]
    /\ inv = [i \in Procs |-> IF i = 1 THEN InitIdle ELSE KeysIdle]
    /\ guard = NoGuard
    /\ atomic = NoAtomic
    /\ document = NoDoc

\* InitService.Init up to DefaultConfig: the root check, EnsureLayout and
\* the Stat of the config file, whose error lets Init go on as it does for a
\* missing file
InitCall(i, root, recipients, force) ==
    /\ CanCall(i)
    /\ LET r == [InitIdle EXCEPT !.op = "Init", !.root = root,
                                 !.recipients = recipients, !.force = force]
       IN  IF TrimSpace(root) = <<>>
           THEN inv' = [inv EXCEPT ![i] = Return(r, "root required")]
           ELSE \/ inv' = [inv EXCEPT ![i] = Return(r, "layout")]
                \/ /\ config /= NoFile
                   /\ ~force
                   /\ inv' = [inv EXCEPT ![i] = Return(r, "already initialized")]
                \/ inv' = [inv EXCEPT ![i] =
                             [r EXCEPT !.pc = "saveConfig",
                                       !.cfg = DefaultConfig(recipients)]]
    /\ UNCHANGED <<disk, aside>>

\* SaveConfig of the new Config
InitSaveConfig(i) ==
    /\ inv[i].op = "Init" /\ inv[i].pc = "saveConfig"
    /\ LET r == inv[i]
       IN  \/ /\ inv' = [inv EXCEPT ![i] = Return(r, "config save")]
              /\ UNCHANGED config
           \/ /\ Validate(r.cfg)
              /\ config' = r.cfg
              /\ inv' = [inv EXCEPT ![i] = [r EXCEPT !.pc = "saveIndex"]]
    /\ UNCHANGED <<indexFile, secrets, blobs, aside>>

\* SaveIndex of NewIndex, then the git repository and the README, which
\* change nothing of the vault; InitRepo can fail
InitSaveIndex(i) ==
    /\ inv[i].op = "Init" /\ inv[i].pc = "saveIndex"
    /\ LET r == inv[i]
       IN  \/ /\ inv' = [inv EXCEPT ![i] = Return(r, "index save")]
              /\ UNCHANGED indexFile
           \/ /\ indexFile' = NewIndex
              /\ \E err \in {"", "git"} : inv' = [inv EXCEPT ![i] = Return(r, err)]
    /\ UNCHANGED <<config, secrets, blobs, aside>>

\* the caller has taken the result of Init
InitFinish(i) ==
    /\ inv[i].op = "Init" /\ inv[i].pc = "done"
    /\ inv' = [inv EXCEPT ![i] = InitIdle]
    /\ UNCHANGED <<disk, aside>>

\* client 1 initializes, any number of times; client 2 adds and removes
\* recipients
NextInit ==
    \/ \E root \in RootArgs, rs \in InitRecipientArgs, force \in BOOLEAN :
          InitCall(1, root, rs, force)
    \/ InitSaveConfig(1)
    \/ InitSaveIndex(1)
    \/ InitFinish(1)
    \/ \E rc \in RecipientArgs : KeysAdd(2, rc)
    \/ \E rc \in RecipientArgs : KeysRemove(2, rc)
    \/ KeysFinish(2)

SpecInit == InitInit /\ [][NextInit]_vars

(***************************************************************************)
(* The operations called with identifiers and keys that do not pass        *)
(* validation, next to one call of each that does                          *)
(***************************************************************************)

\* identifiers that are empty, blank, hold a separator, hold "..", or hold
\* another character that is not allowed
BadIdentifierArgs ==
    {<<>>, <<" ">>, <<"p", "/">>, <<"p", ".", ".", "d">>, <<"p", "#">>, <<"\\">>}

\* keys that are empty, start with a digit, or hold "-", ".." or a space
BadKeyArgs == {<<>>, <<"1">>, <<"A", "-">>, <<"A", ".", ".">>, <<"A", " ">>}

ValidateProjectArgs == {<<"p">>} \cup BadIdentifierArgs
ValidateEnvArgs == {<<"d">>} \cup BadIdentifierArgs
ValidateNameArgs == {<<"f">>} \cup BadIdentifierArgs
ValidateKeyArgs == {<<"A">>} \cup BadKeyArgs

\* a vault after Init, with or without the secret file and the blob of
\* (p, d) and their Index entries
InitValidate ==
    /\ config = DefaultConfig(<<InitRecipients>>)
    /\ secrets \in [Projects \X Envs ->
                      {NoFile, EncryptDotenv(<<"A", "=", "x", "\n">>, <<InitRecipients>>)}]
    /\ blobs \in [Projects \X Envs \X Names ->
                    {NoFile, EncryptBinary(<<"x">>, <<InitRecipients>>)}]
    /\ LET withKey == IF secrets[<<<<"p">>, <<"d">>>>] = NoFile THEN NewIndex
                      ELSE SetKey(NewIndex, <<"p">>, <<"d">>, <<"A">>, 0)
       IN  indexFile = IF blobs[<<<<"p">>, <<"d">>, <<"f">>>>] = NoFile THEN withKey
                       ELSE SetFile(withKey, <<"p">>, <<"d">>, <<"f">>,
                                    buildFileMetadata(<<"x">>))
    /\ inv = [i \in Procs |-> Idle]
    /\ guard = NoGuard
    /\ atomic = NoAtomic
    /\ document = NoDoc

NextValidate ==
    \/ Finish(1)
    \/ \E p \in ValidateProjectArgs, e \in ValidateEnvArgs, k \in ValidateKeyArgs :
          SetCall(1, p, e, k, <<"x">>)
    \/ SetWriteEnv(1)
    \/ SetLoadIndex(1)
    \/ SetSaveIndex(1)
    \/ \E p \in ValidateProjectArgs, e \in ValidateEnvArgs, k \in ValidateKeyArgs :
          UnsetCall(1, p, e, k)
    \/ UnsetRemove(1)
    \/ UnsetWriteEnv(1)
    \/ UnsetLoadIndex(1)
    \/ UnsetSaveIndex(1)
    \/ \E p \in ValidateProjectArgs, e \in ValidateEnvArgs :
          ImportCall(1, p, e, <<"B", "=", "x", "\n">>,
                     [Strategy |-> "", Resolver |-> "nil", NoPreserveOrder |-> FALSE])
    \/ ImportWriteEnv(1)
    \/ ImportLoadIndex(1)
    \/ ImportSaveIndex(1)
    \/ \E p \in ValidateProjectArgs, e \in ValidateEnvArgs, n \in ValidateNameArgs :
          PutCall(1, p, e, n, <<"x">>)
    \/ PutWrite(1)
    \/ PutLoadIndex(1)
    \/ PutSaveIndex(1)
    \/ \E p \in ValidateProjectArgs, e \in ValidateEnvArgs, n \in ValidateNameArgs :
          GetCall(1, p, e, n)
    \/ \E p \in ValidateProjectArgs, e \in ValidateEnvArgs :
          ApplyCall(1, p, e, <<"t">>, File(<<"A", "=", "y", "\n">>), FALSE)
    \/ ApplyWrite(1)
    \/ \E p \in ValidateProjectArgs, e \in ValidateEnvArgs :
          ExportEnvWithOptions(1, p, e, FALSE)

SpecValidate == InitValidate /\ [][NextValidate]_vars

(***************************************************************************)
(* Two clients that Set on the same (project, env) at the same time; no    *)
(* lock is taken, so their reads and writes interleave freely              *)
(***************************************************************************)

\* the key each client sets
RaceKey(i) == IF i = 1 THEN <<"A">> ELSE <<"B">>

NextRace ==
    \E i \in Procs :
        \/ SetCall(i, <<"p">>, <<"d">>, RaceKey(i), <<"x">>)
        \/ SetWriteEnv(i)
        \/ SetLoadIndex(i)
        \/ SetSaveIndex(i)
        \/ Finish(i)

SpecRace == Init /\ [][NextRace]_vars

(***************************************************************************)
(* The operations of Index, applied one after the other to an Index that   *)
(* starts empty; the index file holds it, and client 1 records the last    *)
(* operation                                                               *)
(***************************************************************************)

\* two envs of one project, two keys and one blob name
IndexEnvArgs == {<<"d">>, <<"e">>}
IndexKeyArgs == {<<"A">>, <<"B">>}

\* the record of an operation of Index
IndexOp(op, env, key, name) ==
    [Idle EXCEPT !.pc = "done", !.op = op, !.project = <<"p">>, !.env = env,
                 !.key = key, !.name = name, !.pre = Snapshot]

IndexSetKey(env, key) ==
    /\ \E now \in Times :
          indexFile' = SetKey(LoadIndex(indexFile), <<"p">>, env, key, now)
    /\ inv' = [inv EXCEPT ![1] = IndexOp("SetKey", env, key, <<>>)]
    /\ UNCHANGED <<config, secrets, blobs, aside>>

IndexSetFile(env, name) ==
    /\ \E now \in Times :
          indexFile' = SetFile(LoadIndex(indexFile), <<"p">>, env, name,
                               [buildFileMetadata(<<"x">>) EXCEPT !.LastUpdated = now])
    /\ inv' = [inv EXCEPT ![1] = IndexOp("SetFile", env, <<>>, name)]
    /\ UNCHANGED <<config, secrets, blobs, aside>>

IndexRemoveKey(env, key) ==
    /\ indexFile' = RemoveKey(LoadIndex(indexFile), <<"p">>, env, key)
    /\ inv' = [inv EXCEPT ![1] = IndexOp("RemoveKey", env, key, <<>>)]
    /\ UNCHANGED <<config, secrets, blobs, aside>>

IndexRemoveFile(env, name) ==
    /\ indexFile' = RemoveFile(LoadIndex(indexFile), <<"p">>, env, name)
    /\ inv' = [inv EXCEPT ![1] = IndexOp("RemoveFile", env, <<>>, name)]
    /\ UNCHANGED <<config, secrets, blobs, aside>>

NextIndex ==
    \/ \E e \in IndexEnvArgs, k \in IndexKeyArgs : IndexSetKey(e, k)
    \/ \E e \in IndexEnvArgs, n \in NameArgs : IndexSetFile(e, n)
    \/ \E e \in IndexEnvArgs, k \in IndexKeyArgs : IndexRemoveKey(e, k)
    \/ \E e \in IndexEnvArgs, n \in NameArgs : IndexRemoveFile(e, n)

SpecIndex == Init /\ [][NextIndex]_vars

(***************************************************************************)
(* What an observer of the disk sees                                       *)
(***************************************************************************)

\* the keys found by decrypting and parsing a secret file (none when absent)
KeysOfFile(file) == DOMAIN readEnv(file).dotenv.Values

\* the values found by decrypting and parsing a secret file
ValuesOfFile(file) == readEnv(file).dotenv.Values

\* the keys the persisted Index lists for (project, env)
KeysOfIndex(file, project, env) == ListKeys(LoadIndex(file), project, env)

\* the blobs the persisted Index lists for (project, env)
BlobsOfIndex(file, project, env) == ListFiles(LoadIndex(file), project, env)

\* the blob files on disk for (project, env)
BlobsOnDisk(bl, project, env) == {n \in Names : bl[<<project, env, n>>] /= NoFile}

\* Index and files agree on every (project, env)
Agree(idxFile, sec, bl) ==
    \A p \in Projects, e \in Envs :
        /\ KeysOfIndex(idxFile, p, e) = KeysOfFile(sec[<<p, e>>])
        /\ BlobsOfIndex(idxFile, p, e) = BlobsOnDisk(bl, p, e)

\* client 1 has returned from op with success
Succeeded(ops) == inv[1].pc = "done" /\ inv[1].err = "" /\ inv[1].op \in ops

\* client 1 is between two steps of an invocation or has just returned
Started == inv[1].pc \notin {"idle"} /\ inv[1].err /= "validation"

(***************************************************************************)
(* Properties                                                              *)
(***************************************************************************)

\* C1 (as stated): after any sequence of operations, whenever Set, Unset or
\* ImportEnv returns success the keys of the Index for (project, env) are
\* the keys of the decrypted secret file.
C1_AfterAnySequence ==
    Succeeded({"Set", "Unset", "ImportEnv"}) =>
        KeysOfIndex(indexFile, inv[1].project, inv[1].env)
            = KeysOfFile(secrets[<<inv[1].project, inv[1].env>>])

\* C1 (amended): when Set, Unset or ImportEnv starts with the Index and the
\* secret file of (project, env) listing the same keys and returns success,
\* they list the same keys on return.
C1_SuccessKeepsAgreement ==
    LET r == inv[1]
    IN  (/\ Succeeded({"Set", "Unset", "ImportEnv"})
         /\ KeysOfIndex(r.pre.indexFile, r.project, r.env)
                = KeysOfFile(r.pre.secrets[<<r.project, r.env>>]))
        => KeysOfIndex(indexFile, r.project, r.env)
               = KeysOfFile(secrets[<<r.project, r.env>>])

\* an ImportEnv that added one key and updated another returned success on a
\* vault whose Index and files agreed
C1_Witness ==
    LET r == inv[1]
    IN  /\ Succeeded({"ImportEnv"})
        /\ r.report.Added = 1 /\ r.report.Updated = 1
        /\ KeysOfIndex(r.pre.indexFile, r.project, r.env)
               = KeysOfFile(r.pre.secrets[<<r.project, r.env>>])
        /\ KeysOfIndex(indexFile, r.project, r.env) = {<<"A">>, <<"B">>}

\* the invocation of client 1 has returned an error
Failed ==
    /\ inv[1].pc = "done" /\ inv[1].err /= ""
    /\ inv[1].op \in {"Set", "Unset", "ImportEnv", "ApplyEnvFile", "Put"}

\* the error came from the Index load or save that follows the file write
IndexStepFailed == inv[1].err \in {"index load", "index save"}

\* C2 as claimed: whatever step of Set, Unset, ImportEnv, ApplyEnvFile or Put
\* returns the error, the secret or blob file, the Index and the target env
\* file have the content they had before the call.
C2_ErrorChangesNothing ==
    Failed =>
        /\ secrets = inv[1].pre.secrets
        /\ blobs = inv[1].pre.blobs
        /\ indexFile = inv[1].pre.indexFile
        /\ inv[1].target = inv[1].targetBefore

\* C2 as amended: an error from a step up to and including the write of the
\* secret, blob or target file leaves everything as it was; an error from the
\* Index load or save after it leaves the Index and every other file as they
\* were, the invocation's own secret or blob file being already replaced.
C2_ErrorBeforeIndexChangesNothing ==
    LET r == inv[1]
    IN  Failed =>
          /\ indexFile = r.pre.indexFile
          /\ r.target = r.targetBefore
          /\ ~IndexStepFailed => secrets = r.pre.secrets /\ blobs = r.pre.blobs
          /\ IndexStepFailed =>
                /\ \A pe \in DOMAIN secrets :
                      pe /= <<r.project, r.env>> => secrets[pe] = r.pre.secrets[pe]
                /\ \A pen \in DOMAIN blobs :
                      pen /= <<r.project, r.env, r.name>> => blobs[pen] = r.pre.blobs[pen]
                /\ r.op = "Put" => /\ secrets = r.pre.secrets
                                   /\ blobs[<<r.project, r.env, r.name>>] = r.ciphertext
                /\ r.op /= "Put" => /\ blobs = r.pre.blobs
                                    /\ secrets[<<r.project, r.env>>] \in {r.ciphertext, NoFile}

\* a Set whose Index save failed after the secret file was replaced
C2_Witness ==
    /\ Failed /\ inv[1].op = "Set" /\ inv[1].err = "index save"
    /\ secrets /= inv[1].pre.secrets
    /\ secrets[<<inv[1].project, inv[1].env>>] = inv[1].ciphertext
    /\ indexFile = inv[1].pre.indexFile

\* C3 (as stated): during Set, Unset, ImportEnv or Put started on a vault
\* whose Index and files agree, the Index never lists a key or blob that is
\* missing from the file on disk.
C3_NoDanglingEntry ==
    LET r == inv[1]
    IN  (Started /\ Agree(r.pre.indexFile, r.pre.secrets, r.pre.blobs))
        => \A p \in Projects, e \in Envs :
              /\ KeysOfIndex(indexFile, p, e) \subseteq KeysOfFile(secrets[<<p, e>>])
              /\ BlobsOfIndex(indexFile, p, e) \subseteq BlobsOnDisk(blobs, p, e)

\* C3 (amended): during Set, ImportEnv or Put started on a vault whose Index
\* and files agree, the Index never lists a key or blob that is missing from
\* the file on disk; during Unset the only such entry is the key being
\* unset, between the write or removal of the secret file and SaveIndex.
C3_NoDanglingEntryButUnset ==
    LET r == inv[1]
    IN  (Started /\ Agree(r.pre.indexFile, r.pre.secrets, r.pre.blobs))
        => \A p \in Projects, e \in Envs :
              /\ KeysOfIndex(indexFile, p, e) \ KeysOfFile(secrets[<<p, e>>])
                    \subseteq (IF /\ r.op = "Unset"
                                  /\ <<p, e>> = <<r.project, r.env>>
                                  /\ \/ r.pc \in {"loadIndex", "saveIndex"}
                                     \/ r.err \in {"index load", "index save"}
                               THEN {r.key} ELSE {})
              /\ BlobsOfIndex(indexFile, p, e) \subseteq BlobsOnDisk(blobs, p, e)

\* a Set has written the secret file and not yet the Index
C3_Witness ==
    LET r == inv[1]
    IN  /\ r.op = "Set" /\ r.pc = "loadIndex"
        /\ Agree(r.pre.indexFile, r.pre.secrets, r.pre.blobs)
        /\ r.key \in KeysOfFile(secrets[<<r.project, r.env>>])
        /\ r.key \notin KeysOfIndex(indexFile, r.project, r.env)

\* the input of the ImportEnv client 1 runs has an Error-severity issue
InputHasError ==
    LET issues == ParseDotenv(inv[1].input).Issues
    IN  \E n \in 1..Len(issues) : issues[n].Severity = "error"

\* the values of the vault when the invocation of client 1 started
PreValues == ValuesOfFile(inv[1].pre.secrets[<<inv[1].project, inv[1].env>>])

\* the values of the vault now, for the pair client 1 works on
NowValues == ValuesOfFile(secrets[<<inv[1].project, inv[1].env>>])

\* C7: after a successful ImportEnv, under every strategy, the keys of the
\* vault are the previous keys together with the imported keys, and
\* Added + Updated + Skipped is the number of distinct imported keys.
C7_MergeTotality ==
    LET r == inv[1]
    IN  Succeeded({"ImportEnv"}) =>
          /\ DOMAIN NowValues = DOMAIN PreValues \cup DOMAIN r.parsed.Values
          /\ r.report.Added + r.report.Updated + r.report.Skipped
                = Cardinality(DOMAIN ParseDotenv(r.input).Values)

\* an interactive import added B and updated A
C7_Witness ==
    LET r == inv[1]
    IN  /\ Succeeded({"ImportEnv"})
        /\ r.options.Strategy = "interactive"
        /\ r.report.Added = 1 /\ r.report.Updated = 1
        /\ DOMAIN PreValues = {<<"A">>}
        /\ DOMAIN NowValues = {<<"A">>, <<"B">>}

\* the value ImportEnv is to leave for a key that is in the input and in the
\* vault
ConflictValue(key) ==
    LET r == inv[1]
        fileValue == ParseDotenv(r.input).Values[key]
    IN  CASE r.options.Strategy = "prefer-file" -> fileValue
          [] r.options.Strategy = "interactive" ->
                 Resolve(r.options.Resolver, key, PreValues[key], fileValue).value
          [] OTHER -> PreValues[key]

\* C8: after a successful ImportEnv every imported key that was absent holds
\* the file value (Added), every imported key that was present holds the
\* vault value under prefer-vault or the default (Skipped), the file value
\* under prefer-file (Updated) and the resolver's value under interactive
\* (Skipped when it is the vault value, Updated otherwise), and every other
\* vault key keeps its value.
C8_MergeValues ==
    LET r == inv[1]
        file == ParseDotenv(r.input).Values
        new  == DOMAIN file \ DOMAIN PreValues
        old  == DOMAIN file \cap DOMAIN PreValues
        kept == {k \in old : ConflictValue(k) = PreValues[k]}
    IN  Succeeded({"ImportEnv"}) =>
          /\ \A k \in new : k \in DOMAIN NowValues /\ NowValues[k] = file[k]
          /\ \A k \in old : k \in DOMAIN NowValues /\ NowValues[k] = ConflictValue(k)
          /\ \A k \in DOMAIN PreValues \ DOMAIN file :
                k \in DOMAIN NowValues /\ NowValues[k] = PreValues[k]
          /\ r.report.Added = Cardinality(new)
          /\ IF r.options.Strategy = "prefer-file"
             THEN r.report.Updated = Cardinality(old) /\ r.report.Skipped = 0
             ELSE /\ r.report.Skipped = Cardinality(kept)
                  /\ r.report.Updated = Cardinality(old \ kept)

\* C9: an ImportEnv whose input has an Error issue fails, so does one whose
\* resolver fails on a key that is in the vault, and both leave the secret
\* file and the Index as they were.
C9_FailedImportWritesNothing ==
    LET r == inv[1]
    IN  (r.pc = "done" /\ r.op = "ImportEnv" /\ r.err /= "validation") =>
          /\ InputHasError => r.err = "dotenv error"
          /\ (/\ r.options.Strategy = "interactive"
              /\ r.options.Resolver = "fail"
              /\ DOMAIN r.parsed.Values \cap DOMAIN PreValues /= {})
             => r.err /= ""
          /\ r.err \in {"dotenv error", "resolver"} =>
                /\ secrets = r.pre.secrets
                /\ indexFile = r.pre.indexFile

\* the resolver failed after another key of the same input had been added
C9_Witness ==
    LET r == inv[1]
    IN  /\ r.pc = "done" /\ r.op = "ImportEnv" /\ r.err = "resolver"
        /\ r.report.Added = 1
        /\ secrets = r.pre.secrets /\ indexFile = r.pre.indexFile

\* C10: ImportEnv with strategy interactive and no resolver returns an error
\* and imports nothing, whatever the input and the vault hold.
C10_InteractiveNeedsResolver ==
    LET r == inv[1]
    IN  (/\ r.pc = "done" /\ r.op = "ImportEnv"
         /\ r.options.Strategy = "interactive" /\ r.options.Resolver = "nil")
        => /\ r.err /= ""
           /\ secrets = r.pre.secrets
           /\ indexFile = r.pre.indexFile

(***************************************************************************)
(* Key order                                                               *)
(***************************************************************************)

\* the elements of s, each at its first occurrence only
RECURSIVE FirstSeenFrom(_, _)
FirstSeenFrom(s, i) ==
    IF i > Len(s) THEN <<>>
    ELSE (IF \E j \in 1..(i - 1) : s[j] = s[i] THEN <<>> ELSE <<s[i]>>)
             \o FirstSeenFrom(s, i + 1)

\* the elements of s that are not in S, in the order of s
RECURSIVE Without(_, _)
Without(s, S) ==
    IF s = <<>> THEN <<>>
    ELSE (IF Head(s) \in S THEN <<>> ELSE <<Head(s)>>) \o Without(Tail(s), S)

\* the key order an ordered ExportEnv of a secret file shows
ExportedOrder(file) == ParseDotenv(ExportEnv(file)).Order

\* the key order of the vault when the invocation of client 1 started
PreOrder == readEnv(inv[1].pre.secrets[<<inv[1].project, inv[1].env>>]).dotenv.Order

\* C11: after a successful order-preserving ImportEnv the ordered export
\* lists the keys of the imported file in first-seen order, then the keys
\* of the previous vault order that are not in the file, then the remaining
\* keys sorted lexically, and every key of the vault exactly once.
C11_ImportOrder ==
    LET r        == inv[1]
        file     == FirstSeenFrom(ParseDotenv(r.input).Order, 1)
        vault    == Without(FirstSeenFrom(PreOrder, 1), Range(file))
        keys     == KeysOfFile(secrets[<<r.project, r.env>>])
        rest     == SortStrings(keys \ (Range(file) \cup Range(vault)))
        exported == ExportedOrder(secrets[<<r.project, r.env>>])
    IN  (Succeeded({"ImportEnv"}) /\ ~r.options.NoPreserveOrder)
        => /\ exported = file \o vault \o rest
           /\ Range(exported) = keys
           /\ Cardinality(keys) = Len(exported)

\* an order-preserving ImportEnv of a file that lists B before A succeeded on
\* a vault whose order was A, B
C11_Witness ==
    /\ Succeeded({"ImportEnv"}) /\ ~inv[1].options.NoPreserveOrder
    /\ PreOrder = << <<"A">>, <<"B">> >>
    /\ ParseDotenv(inv[1].input).Order = << <<"B">>, <<"A">> >>
    /\ ExportedOrder(secrets[<<inv[1].project, inv[1].env>>]) = << <<"B">>, <<"A">> >>

(***************************************************************************)
(* Round trips                                                             *)
(***************************************************************************)

\* C12: after a successful Set(project, env, key, value) the payload of
\* ExportEnv parses in value mode without an Error issue and maps key to
\* exactly value, and parsing the rendering of the values Set has written
\* gives back exactly those values.
C12_SetExportRoundTrip ==
    LET r      == inv[1]
        parsed == ParseDotenv(ExportEnv(secrets[<<r.project, r.env>>]))
    IN  Succeeded({"Set"})
        => /\ ~HasError(parsed.Issues)
           /\ r.key \in DOMAIN parsed.Values
           /\ parsed.Values[r.key] = r.value
           /\ ParseDotenv(RenderDotenv(r.dotenv.Values)).Values = r.dotenv.Values

(***************************************************************************)
(* Unset of the only key                                                   *)
(***************************************************************************)

\* the persisted Index has an entry for the env of the project
HasEnvEntry(file, project, env) ==
    LET idx == LoadIndex(file)
    IN  /\ project \in DOMAIN idx.Projects
        /\ env \in DOMAIN idx.Projects[project].Envs

\* the persisted Index has an entry for the project
HasProjectEntry(file, project) == project \in DOMAIN LoadIndex(file).Projects

\* the envs other than env that the persisted Index lists for the project
OtherEnvs(file, project, env) ==
    IF HasProjectEntry(file, project)
    THEN DOMAIN LoadIndex(file).Projects[project].Envs \ {env}
    ELSE {}

\* the keys of the secret file of client 1's pair when its invocation started
PreKeys == KeysOfFile(inv[1].pre.secrets[<<inv[1].project, inv[1].env>>])

\* client 1 has returned from an Unset of a valid key that the readable
\* secret file of a valid pair did not hold
UnsetOfMissingKey ==
    /\ inv[1].op = "Unset" /\ inv[1].pc = "done"
    /\ ValidateIdentifier(inv[1].project) /\ ValidateIdentifier(inv[1].env)
    /\ IsValidEnvKey(inv[1].key)
    /\ readEnv(inv[1].pre.secrets[<<inv[1].project, inv[1].env>>]).ok
    /\ inv[1].key \notin PreKeys

\* such an Unset failed, with key-not-found unless the config or the secret
\* file could not be read, and changed nothing
MissingKeyChangesNothing ==
    UnsetOfMissingKey
    => /\ inv[1].err \in {"key not found", "config", "read"}
       /\ Snapshot = inv[1].pre

\* C15 (as stated): a successful Unset of the only key of (project, env)
\* removes the secret file, the env's entry of the Index and the project's
\* entry when it has no other env; Unset of a key that is not in the secret
\* file fails with key-not-found and changes nothing.
C15_UnsetOnlyKey ==
    LET r == inv[1]
    IN  /\ (Succeeded({"Unset"}) /\ PreKeys = {r.key})
           => /\ secrets[<<r.project, r.env>>] = NoFile
              /\ ~HasEnvEntry(indexFile, r.project, r.env)
              /\ OtherEnvs(indexFile, r.project, r.env) = {}
                    => ~HasProjectEntry(indexFile, r.project)
        /\ MissingKeyChangesNothing

\* C15 (amended): a successful Unset of the only key of (project, env)
\* removes the secret file, at no step writing a ciphertext without keys,
\* and removes the key from the Index; the env's entry goes exactly when
\* the Index listed no other key and no blob for it, and then the project's
\* entry goes when it has no other env. Unset of a key that is not in the
\* secret file fails with key-not-found and changes nothing.
C15_UnsetOnlyKeyPrunes ==
    LET r        == inv[1]
        pe       == <<r.project, r.env>>
        keysLeft == KeysOfIndex(r.pre.indexFile, r.project, r.env) \ {r.key}
        blobs0   == BlobsOfIndex(r.pre.indexFile, r.project, r.env)
    IN  /\ (r.op = "Unset" /\ Started /\ PreKeys = {r.key})
           => secrets[pe] \in {r.pre.secrets[pe], NoFile}
        /\ (Succeeded({"Unset"}) /\ PreKeys = {r.key})
           => /\ secrets[pe] = NoFile
              /\ KeysOfIndex(indexFile, r.project, r.env) = keysLeft
              /\ BlobsOfIndex(indexFile, r.project, r.env) = blobs0
              /\ HasEnvEntry(indexFile, r.project, r.env)
                    <=> (keysLeft /= {} \/ blobs0 /= {})
              /\ HasProjectEntry(indexFile, r.project)
                    <=> (\/ HasEnvEntry(indexFile, r.project, r.env)
                         \/ OtherEnvs(indexFile, r.project, r.env) /= {})
        /\ MissingKeyChangesNothing

\* an Unset of the only key succeeded on a pair for which the Index also
\* listed a blob: the secret file is gone and the env's entry is kept
C15_Witness ==
    /\ Succeeded({"Unset"})
    /\ PreKeys = {inv[1].key}
    /\ KeysOfIndex(inv[1].pre.indexFile, inv[1].project, inv[1].env) = {inv[1].key}
    /\ BlobsOfIndex(inv[1].pre.indexFile, inv[1].project, inv[1].env) /= {}
    /\ secrets[<<inv[1].project, inv[1].env>>] = NoFile
    /\ HasEnvEntry(indexFile, inv[1].project, inv[1].env)

\* an Unset of the only key emptied the Index: the env's entry and the
\* project's entry are gone
C15_WitnessPruned ==
    /\ Succeeded({"Unset"})
    /\ PreKeys = {inv[1].key}
    /\ HasProjectEntry(inv[1].pre.indexFile, inv[1].project)
    /\ ~HasProjectEntry(indexFile, inv[1].project)

(***************************************************************************)
(* ApplyEnvFile                                                            *)
(***************************************************************************)

\* the env file as ApplyEnvFile of client 1 found it, parsed in document mode
TargetDoc == ParseDotenvDocument(inv[1].targetBefore.bytes)

\* the keys of the key lines of a document
KeysOfLines(lines) == {lines[n].Key : n \in {m \in 1..Len(lines) : lines[m].Kind = "key"}}

\* client 1 is in or has returned from an ApplyEnvFile on a valid pair whose
\* env file exists and parses without Error issue
Applying ==
    /\ inv[1].op = "ApplyEnvFile" /\ Started
    /\ inv[1].targetBefore.exists
    /\ ~HasError(TargetDoc.Issues)

\* every key line whose key is in the vault has the vault's value, and
\* onlyExisting is set or no vault key is missing from the file
NothingToChange ==
    /\ \A n \in 1..Len(TargetDoc.Lines) :
          (TargetDoc.Lines[n].Kind = "key" /\ TargetDoc.Lines[n].Key \in DOMAIN PreValues)
          => TargetDoc.Lines[n].Value = PreValues[TargetDoc.Lines[n].Key]
    /\ inv[1].onlyExisting \/ DOMAIN PreValues \subseteq KeysOfLines(TargetDoc.Lines)

\* C16: when ApplyEnvFile finds nothing to change it returns the zero report
\* and does not write the target file: it returns without a write step and
\* the file is as it was.
C16_NothingToChangeNoWrite ==
    (Applying /\ NothingToChange)
    => /\ inv[1].pc = "done"
       /\ inv[1].report.Updated = 0 /\ inv[1].report.Added = 0
       /\ inv[1].target = inv[1].targetBefore

\* ApplyEnvFile returned success on an env file whose key line B already had
\* the value of the vault's only key B
C16_Witness ==
    /\ Applying /\ NothingToChange
    /\ Succeeded({"ApplyEnvFile"})
    /\ ~inv[1].onlyExisting
    /\ DOMAIN PreValues = {<<"B">>}
    /\ KeysOfLines(TargetDoc.Lines) = {<<"B">>}

\* the env file as the ApplyEnvFile of client 1 left it, parsed in document
\* mode
TargetDocAfter == ParseDotenvDocument(inv[1].target.bytes)

\* the vault keys that the env file did not have, in lexical order
MissingKeys == SortStrings(DOMAIN PreValues \ KeysOfLines(TargetDoc.Lines))

\* line n of the env file is a key line whose key is in the vault
InVault(n) ==
    /\ TargetDoc.Lines[n].Kind = "key"
    /\ TargetDoc.Lines[n].Key \in DOMAIN PreValues

\* C17: after a successful ApplyEnvFile every key line of the file whose key
\* is in the vault has the vault's value at the same position with the same
\* export prefix and inline comment, every other line is in place as it
\* was, the vault keys absent from the file follow as new lines in lexical
\* order exactly when onlyExisting is false, Updated is the number of key
\* lines whose value changed and Added the number of appended lines.
C17_ApplyRewritesInPlace ==
    Succeeded({"ApplyEnvFile"})
    => LET old   == TargetDoc.Lines
           new   == TargetDocAfter.Lines
           added == IF inv[1].onlyExisting THEN <<>> ELSE MissingKeys
       IN  /\ ~HasError(TargetDocAfter.Issues)
           /\ Len(new) = Len(old) + Len(added)
           /\ \A n \in 1..Len(old) :
                 new[n] = IF InVault(n)
                          THEN [old[n] EXCEPT !.Value = PreValues[old[n].Key]]
                          ELSE old[n]
           /\ \A k \in 1..Len(added) :
                 new[Len(old) + k] = KeyLine(added[k], PreValues[added[k]], <<>>, FALSE)
           /\ inv[1].report.Updated
                = Cardinality({n \in 1..Len(old) :
                                 InVault(n) /\ old[n].Value /= PreValues[old[n].Key]})
           /\ inv[1].report.Added = Len(added)

(***************************************************************************)
(* Rotate                                                                  *)
(***************************************************************************)

\* Rotate of client 1 has returned
RotateReturned == inv[1].op = "Rotate" /\ inv[1].pc = "done"

\* the pairs that had a secret file when Rotate of client 1 started
FilesAtStart == {pe \in RotatePairs : inv[1].pre.secrets[pe] /= NoFile}

\* the files the loop of Rotate has been through, in order
Processed == SubSeq(inv[1].files, 1, Len(inv[1].outcome))

\* C18: when Rotate returns from its loop, it has been through every secret
\* file exactly once, whatever failed on the way: Total is the number of
\* secret files, Rotated + Failed = Total, there are as many error entries
\* as failed files, and every failed file has the ciphertext it had.
C18_RotateEveryFileOnce ==
    (RotateReturned /\ inv[1].err \in {"", "not exist"})
    => LET r == inv[1]
       IN  /\ Range(Processed) = FilesAtStart
           /\ Len(Processed) = Cardinality(FilesAtStart)
           /\ r.report.Total = Cardinality(FilesAtStart)
           /\ r.report.Rotated + r.report.Failed = r.report.Total
           /\ r.report.Rotated
                = Cardinality({n \in 1..Len(r.outcome) : r.outcome[n] = "rotated"})
           /\ Len(r.report.Errors) = r.report.Failed
           /\ \A n \in 1..Len(r.outcome) :
                 r.outcome[n] /= "rotated"
                 => secrets[Processed[n]] = r.pre.secrets[Processed[n]]

\* Rotate returned after three files of which the first could not be
\* decrypted, the second was rotated and the third could not be written
C18_Witness ==
    /\ RotateReturned /\ inv[1].err = ""
    /\ inv[1].outcome = <<"decrypt", "rotated", "write">>
    /\ inv[1].report = [Total |-> 3, Rotated |-> 1, Failed |-> 2,
                        Errors |-> <<<<inv[1].files[1], "decrypt">>,
                                     <<inv[1].files[3], "write">>>>]

\* C19: Rotate and the keys rotate command report nothing-to-rotate if and
\* only if the vault has no secret file: a Rotate that gets to list the
\* secret files of a vault without any reports it, and no failure on a
\* vault with secret files is reported as nothing-to-rotate.
C19_NothingToRotateIffNoFiles ==
    RotateReturned
    => LET r        == inv[1]
           reported == runKeysRotate(r).message = "no secrets to rotate"
       IN  /\ reported <=> IsNotExist(r.err)
           /\ reported => FilesAtStart = {}
           /\ (FilesAtStart = {} /\ r.err \notin {"config", "config not exist",
                                                 "no recipients", "list"})
              => reported

\* C20: every secret file that Rotate has counted as rotated decrypts to
\* the plaintext it decrypted to before and is encrypted for exactly the
\* recipients of the config that Rotate loaded at its start.
C20_RotatedKeepsPlaintext ==
    inv[1].op = "Rotate"
    => \A n \in 1..Len(inv[1].outcome) :
          inv[1].outcome[n] = "rotated"
          => /\ DecryptDotenv(secrets[Processed[n]])
                  = DecryptDotenv(inv[1].pre.secrets[Processed[n]])
             /\ secrets[Processed[n]].rcpts = inv[1].pre.config.Recipients

\* Rotate rotated a file for the two recipients of the config it had loaded
\* although the config file has lost one of them since
C20_Witness ==
    /\ RotateReturned /\ inv[1].err = ""
    /\ inv[1].report.Rotated >= 1
    /\ inv[1].pre.config.Recipients = <<<<"r1">>, <<"r2">>>>
    /\ config /= NoFile /\ config.Recipients = <<<<"r2">>>>
    /\ \E n \in 1..Len(inv[1].outcome) :
          /\ inv[1].outcome[n] = "rotated"
          /\ secrets[Processed[n]].rcpts = <<<<"r1">>, <<"r2">>>>
          /\ inv[1].pre.secrets[Processed[n]].rcpts = <<<<"r1">>>>

(***************************************************************************)
(* The recipients of the Config                                            *)
(***************************************************************************)

\* the recipients of a config file; a missing file has none
RecipientsOf(file) == IF file = NoFile THEN <<>> ELSE file.Recipients

\* no blank entry, no entry with space around it, no entry twice
CleanList(rs) ==
    /\ \A n \in 1..Len(rs) : rs[n] /= <<>> /\ TrimSpace(rs[n]) = rs[n]
    /\ \A m, n \in 1..Len(rs) : m /= n => rs[m] /= rs[n]

\* the place of x in rs
Pos(rs, x) == CHOOSE n \in 1..Len(rs) : rs[n] = x

\* client 2 returns from op with success in this step
KeysReturns(op) ==
    /\ inv[2].pc = "idle"
    /\ inv'[2].pc = "done" /\ inv'[2].op = op /\ inv'[2].err = ""

\* C21: after Init and any sequence of keys Add and Remove the recipients of
\* the persisted Config have no blank entry, no entry with space around it
\* and no duplicate; a successful Add of a recipient that is not listed
\* appends it at the end, a successful Add of a listed one leaves the config
\* file as it is, and a successful Remove leaves exactly the other
\* recipients, in the order they had
C21_RecipientsClean ==
    /\ CleanList(RecipientsOf(config))
    /\ [][/\ CleanList(RecipientsOf(config'))
          /\ KeysReturns("Add") =>
                IF inv'[2].recipient \in Range(RecipientsOf(config))
                THEN config' = config
                ELSE RecipientsOf(config') =
                         Append(RecipientsOf(config), inv'[2].recipient)
          /\ KeysReturns("Remove") =>
                LET old == RecipientsOf(config)
                    new == RecipientsOf(config')
                IN  /\ Range(new) = Range(old) \ {inv'[2].recipient}
                    /\ \A m, n \in 1..Len(new) :
                          m < n => Pos(old, new[m]) < Pos(old, new[n])]_vars

\* Init on a directory without a vault was given an untrimmed, a blank and a
\* repeated recipient, and then the first recipient was removed
C21_Witness ==
    /\ inv[2].op = "Remove" /\ inv[2].pc = "done" /\ inv[2].err = ""
    /\ inv[2].recipient = <<"r1">>
    /\ indexFile = NewIndex
    /\ \A pe \in DOMAIN secrets : secrets[pe] = NoFile
    /\ RecipientsOf(config) = <<<<"r2">>>>

(***************************************************************************)
(* Init and the Index                                                      *)
(***************************************************************************)

\* client 1 calls Init without Force on a vault that has a config file
InitAgainCalled ==
    /\ inv[1].pc = "idle" /\ inv'[1].op = "Init"
    /\ ~inv'[1].force
    /\ config /= NoFile

\* client 1 returns from an Init with Force with success
ForcedInitReturns ==
    /\ inv[1].op = "Init" /\ inv[1].pc = "saveIndex"
    /\ inv'[1].pc = "done" /\ inv'[1].err = "" /\ inv'[1].force

\* C30: Init without Force on an initialized vault returns an error and
\* leaves the config and the index file as they are, and when an Init with
\* Force returns success every key of every secret file is listed in the
\* persisted Index
C30_InitKeepsIndex ==
    [][/\ InitAgainCalled =>
            /\ inv'[1].pc = "done" /\ inv'[1].err /= ""
            /\ config' = config /\ indexFile' = indexFile
       /\ ForcedInitReturns =>
            \A pe \in DOMAIN secrets' :
                KeysOfFile(secrets'[pe]) \subseteq KeysOfIndex(indexFile', pe[1], pe[2])]_vars

(***************************************************************************)
(* Validation                                                              *)
(***************************************************************************)

\* a letter or a digit
IsAlnum(c) ==
    \/ Byte(c) >= 48 /\ Byte(c) <= 57
    \/ Byte(c) >= 65 /\ Byte(c) <= 90
    \/ Byte(c) >= 97 /\ Byte(c) <= 122

\* name is empty, holds a character that is neither a letter, a digit, "-",
\* "_" nor ".", or holds ".."
InvalidName(name) ==
    \/ name = <<>>
    \/ \E n \in 1..Len(name) : ~IsAlnum(name[n]) /\ name[n] \notin {"-", "_", "."}
    \/ \E n \in 1..(Len(name) - 1) : name[n] = "." /\ name[n + 1] = "."

\* the invocation of client 1 was given an invalid project, env, key or file
\* name
InvalidArgument ==
    LET r == inv[1]
    IN  /\ r.op \in {"Set", "Unset", "ImportEnv", "ExportEnv", "ApplyEnvFile",
                     "Put", "Get"}
        /\ \/ InvalidName(r.project)
           \/ InvalidName(r.env)
           \/ r.op \in {"Set", "Unset"} /\ InvalidName(r.key)
           \/ r.op \in {"Put", "Get"} /\ InvalidName(r.name)

\* C22: Set, Unset, ImportEnv, ExportEnv, ApplyEnvFile, Put and Get called
\* with an invalid project, env, key or file name return the validation
\* error at once, without a call of the FileSystem or the Encrypter and
\* with the files of the vault as they were
C22_InvalidReturnsAtOnce ==
    InvalidArgument =>
        /\ inv[1].pc = "done"
        /\ inv[1].err = "validation"
        /\ ~inv[1].ports
        /\ Snapshot = inv[1].pre

\* a Get of a blob that exists, with a valid project and env and a file
\* name that holds "..", has returned the validation error
C22_Witness ==
    /\ inv[1].op = "Get"
    /\ inv[1].pc = "done" /\ inv[1].err = "validation"
    /\ ~InvalidName(inv[1].project) /\ ~InvalidName(inv[1].env)
    /\ inv[1].name = <<"p", ".", ".", "d">>
    /\ blobs[<<<<"p">>, <<"d">>, <<"f">>>>] /= NoFile

(***************************************************************************)
(* Concurrent Sets                                                         *)
(***************************************************************************)

\* both clients have returned from Set with success
BothSucceeded ==
    \A i \in Procs : inv[i].op = "Set" /\ inv[i].pc = "done" /\ inv[i].err = ""

\* the secret file and the Index entry of the pair both clients set
RaceFile == secrets[<<<<"p">>, <<"d">>>>]
RaceIndexKeys == KeysOfIndex(indexFile, <<"p">>, <<"d">>)

\* client i read the secret file (the Index) before the other client's key
\* was in it
ReadBeforeOther(i) == RaceKey(3 - i) \notin DOMAIN inv[i].dotenv.Values
IndexReadBeforeOther(i) == RaceKey(3 - i) \notin ListKeys(inv[i].idx, <<"p">>, <<"d">>)

\* C23: when two concurrent Sets on two keys of one (project, env) have both
\* returned success, the secret file is the ciphertext one of them wrote
\* and the Index the one one of them saved, whole; so when each read the
\* file (the Index) before the other's key was in it, the file (the Index)
\* holds only one of the two keys
C23_LastWriterWins ==
    BothSucceeded =>
        /\ \E i \in Procs : RaceFile = inv[i].ciphertext
        /\ \E i \in Procs : indexFile = inv[i].idx
        /\ (\A i \in Procs : ReadBeforeOther(i)) =>
               Cardinality(KeysOfFile(RaceFile)) = 1
        /\ (\A i \in Procs : IndexReadBeforeOther(i)) =>
               Cardinality(RaceIndexKeys) = 1

\* both Sets have returned success and the secret file holds only B, while
\* the Index lists both keys
C23_Witness ==
    /\ BothSucceeded
    /\ KeysOfFile(RaceFile) = {<<"B">>}
    /\ RaceIndexKeys = {<<"A">>, <<"B">>}

\* both Sets have returned success and the Index lists only A, while the
\* secret file holds both keys
C23_WitnessIndex ==
    /\ BothSucceeded
    /\ KeysOfFile(RaceFile) = {<<"A">>, <<"B">>}
    /\ RaceIndexKeys = {<<"A">>}

(***************************************************************************)
(* The order of the file write and the Index                               *)
(***************************************************************************)

\* the secret or blob file an invocation of Set, ImportEnv or Put writes
WrittenFile(r) ==
    IF r.op = "Put" THEN blobs[<<r.project, r.env, r.name>>]
    ELSE secrets[<<r.project, r.env>>]

\* the invocation is at the Index, or has returned from there
AtIndex(r) ==
    \/ r.pc \in {"loadIndex", "saveIndex"}
    \/ r.pc = "done" /\ r.err \in {"index load", "index save", ""}

\* C24: in an invocation of Set, ImportEnv or Put the Index is loaded and
\* written only with the ciphertext file in place, and when the encryption
\* or the write of the ciphertext fails the Index is neither loaded nor
\* written
C24_FileBeforeIndex ==
    LET r == inv[1]
    IN  r.op \in {"Set", "ImportEnv", "Put"} /\ Started =>
            /\ AtIndex(r) => WrittenFile(r) = r.ciphertext
            /\ r.idx /= NoFile \/ indexFile /= r.pre.indexFile => AtIndex(r)
            /\ r.pc = "done" /\ r.err \in {"encrypt", "write"} =>
                   /\ r.idx = NoFile
                   /\ indexFile = r.pre.indexFile

\* an ImportEnv that changes a key has returned with the error of the
\* ciphertext write, and a Put has saved the Index
C24_Witness ==
    /\ inv[1].op = "ImportEnv" /\ inv[1].pc = "done" /\ inv[1].err = "write"
    /\ inv[1].changed /= {}
    /\ BlobsOfIndex(indexFile, <<"p">>, <<"d">>) /= {}

(***************************************************************************)
(* writeFileAtomic and its temporary file                                  *)
(***************************************************************************)

\* C25: when writeFileAtomic has returned, no temporary file is left; when
\* it returned the error of CreateTemp, Chmod, Write, Close or Rename the
\* target is as it was before the call, content or absence, and when it
\* returned without error the target holds the data
C25_FailureLeavesTarget ==
    atomic.pc = "done" =>
        /\ atomic.tmp = Absent
        /\ atomic.err /= "" => atomic.target = atomic.old
        /\ atomic.err = "" => atomic.target = File(atomic.data)

\* the rename failed after the temporary file had been written in full, on a
\* target that existed with another content
C25_Witness ==
    /\ atomic.pc = "done" /\ atomic.err = "rename"
    /\ atomic.old /= Absent
    /\ Len(atomic.data) = MaxDataLen
    /\ atomic.old /= File(atomic.data)

(***************************************************************************)
(* Pruning of the Index                                                    *)
(***************************************************************************)

\* no project without envs and no env without keys and files
NoEmptyEntry(idx) ==
    \A p \in DOMAIN idx.Projects :
        /\ DOMAIN idx.Projects[p].Envs /= {}
        /\ \A e \in DOMAIN idx.Projects[p].Envs :
              \/ DOMAIN idx.Projects[p].Envs[e].Keys /= {}
              \/ DOMAIN idx.Projects[p].Envs[e].Files /= {}

\* C26: after any sequence of SetKey, SetFile, RemoveKey and RemoveFile on
\* an Index that starts empty no env entry is without keys and files and no
\* project entry without envs; a RemoveKey on an env that has files leaves
\* the env with these files and without the key, and a RemoveFile on an env
\* that has keys leaves the env with these keys and without the file
C26_IndexPruned ==
    LET r   == inv[1]
        was == r.pre.indexFile
    IN  /\ NoEmptyEntry(indexFile)
        /\ r.op = "RemoveKey" /\ ListFiles(was, r.project, r.env) /= {} =>
               /\ HasEnvEntry(indexFile, r.project, r.env)
               /\ ListFiles(indexFile, r.project, r.env) = ListFiles(was, r.project, r.env)
               /\ ListKeys(indexFile, r.project, r.env) =
                      ListKeys(was, r.project, r.env) \ {r.key}
        /\ r.op = "RemoveFile" /\ ListKeys(was, r.project, r.env) /= {} =>
               /\ HasEnvEntry(indexFile, r.project, r.env)
               /\ ListKeys(indexFile, r.project, r.env) = ListKeys(was, r.project, r.env)
               /\ ListFiles(indexFile, r.project, r.env) =
                      ListFiles(was, r.project, r.env) \ {r.name}

\* RemoveKey took the last key of an env that has a blob, and the other env
\* of the project has been removed with its last entry
C26_Witness ==
    /\ inv[1].op = "RemoveKey" /\ inv[1].env = <<"d">>
    /\ ListKeys(inv[1].pre.indexFile, <<"p">>, <<"d">>) = {inv[1].key}
    /\ ListFiles(indexFile, <<"p">>, <<"d">>) = {<<"f">>}
    /\ ListKeys(indexFile, <<"p">>, <<"d">>) = {}
    /\ ~HasEnvEntry(indexFile, <<"p">>, <<"e">>)

\* RemoveFile took the last entry of the last env, and the project is gone
C26_WitnessEmptied ==
    /\ inv[1].op = "RemoveFile"
    /\ ListFiles(inv[1].pre.indexFile, <<"p">>, inv[1].env) = {inv[1].name}
    /\ indexFile = NewIndex

(***************************************************************************)
(* ApplyEnvFile, called again                                              *)
(***************************************************************************)

\* what applyValuesToDocument returns when ApplyEnvFile is called again with
\* the same vault content and options on the env file as the first call
\* left it
AppliedAgain ==
    applyValuesToDocument(TargetDocAfter.Lines, PreValues, inv[1].onlyExisting)

\* C27: when ApplyEnvFile has returned success, the env file as it left it
\* parses in document mode without Error issue, and a second call with the
\* same vault content and options finds nothing to update and nothing to
\* add, so that it returns the zero report without writing
C27_ApplyTwice ==
    (Applying /\ Succeeded({"ApplyEnvFile"})) =>
        /\ ~HasError(TargetDocAfter.Issues)
        /\ AppliedAgain.updated = 0
        /\ AppliedAgain.added = 0

(***************************************************************************)
(* Secret files and their keys                                             *)
(***************************************************************************)

\* C29: when a Set, an Unset or an ImportEnv has returned success, a (project,
\* env) has a secret file on disk exactly when it has at least one key:
\* no secret file holds zero keys
C29_FileIffKeys ==
    Succeeded({"Set", "Unset", "ImportEnv"}) =>
        \A pe \in DOMAIN secrets :
            secrets[pe] /= NoFile <=> KeysOfFile(secrets[pe]) /= {}

(***************************************************************************)
(* Rotate after the removal of a recipient                                 *)
(***************************************************************************)

\* the ciphertexts stored in the vault: secret files and blobs
StoredCiphertexts ==
    {secrets[pe] : pe \in {x \in DOMAIN secrets : secrets[x] /= NoFile}}
    \cup {blobs[pen] : pen \in {x \in DOMAIN blobs : blobs[x] /= NoFile}}

\* the recipient the vault was initialized with had been removed when the
\* Rotate of client 1 started, and the Rotate has returned without a failed
\* file
RotatedAfterRemove ==
    /\ RotateReturned /\ inv[1].err = ""
    /\ inv[1].report.Failed = 0
    /\ inv[1].pre.config /= NoFile
    /\ InitRecipients \notin Range(inv[1].pre.config.Recipients)

\* C28: when a recipient has been removed with keys Remove and a Rotate that
\* started afterwards has returned with Failed = 0, no ciphertext stored in
\* the vault, secret file or blob, is encrypted for the removed recipient
C28_RemovedRecipientLocked ==
    RotatedAfterRemove =>
        \A c \in StoredCiphertexts : InitRecipients \notin Range(c.rcpts)

====
